---- MODULE Spec2Model ----
(***************************************************************************)
(* A model of the go-zmodem protocol engine: the sender state machine      *)
(* (sender.go, runSender), the receiver state machine (receiver.go,        *)
(* runReceiver), the frame reader they share (recvHeader / recvSubpacket / *)
(* scanForPad) and the Session guard (zmodem.go, acquire / release).       *)
(*                                                                         *)
(* The two transports are FIFO queues of frames.  One queue element is one *)
(* Flush of the transportWriter: a header, a data subpacket, or raw        *)
(* octets.  File bytes are not stored: a data subpacket names the file and *)
(* the byte range [pos, pos+n) it carries, and a sink is the list of byte  *)
(* ranges written to it, so that loss, duplication and reordering of file  *)
(* bytes are all visible.                                                  *)
(***************************************************************************)
EXTENDS Integers, Sequences, FiniteSets, TLC

VARIABLES
    env,    \* configuration, files offered and handler policy (fixed per run)
    snd,    \* the sender: locals of runSender, Session fields, handler log
    rcv,    \* the receiver: locals of runReceiver, reader state, handler log
    s2r,    \* octets in flight from sender to receiver (frames, in order)
    r2s,    \* octets in flight from receiver to sender
    ctx,    \* [s, r]: whether the context of Send / Receive is cancelled
    faults, \* how many transport faults and stray frames happened so far
    gd      \* Session guard: active flag, deadline, the calls on one Session

vars == <<env, snd, rcv, s2r, r2s, ctx, faults, gd>>

----------------------------------------------------------------------------
(* Program constants *)

InitBlockSize == 256
MinBlockSize == 32
ZrposDivisor == 4
UnreliableGoodNeeded == 16
NormalGoodNeeded == 8
zcrcqInterval == 8
maxConsecutiveErr == 15
DataRetryLimit == 25
AutoDownloadLen == 3
AttnMax == 32

CANFDX == 1
CANOVIO == 2
CANFC32 == 32
ESCCTL == 64
TESCCTL == 64
ZCBIN == 1
FreeCntPos == 2147483647

DefaultMaxBlockSize == 1024
DefaultGarbageThreshold == 1200

(* Bounds of the model *)
MaxCorrupt == 1
MaxInject == 2
MaxAborts == 1
MaxCancels == 1
ResumeAt == 64
PastEnd == 400
PartialStored == 32
MaxCalls == 3
MaxWrites == 2
MaxCoalesce == 2
SmallMaxRetries == 3
MaxCanOctets == 9
MaxWriterOps == 4
MaxUnexpected == 16
MaxStall == 5
MaxPadPrefix == 3
MaxWidthFrames == 6
WidthChunk == 200
SmallSize == 300
LargeSize == 2400
SmallWindow == 512
MaxRetriesTop == 17

----------------------------------------------------------------------------
(* Frames on the wire *)

\* Header.Data read as flags: ZF0 is Data[3], the top octet of the position.
ZF0(h) == (h.pos \div 16777216) % 256
\* SetZF0 on a zero header.
WithZF0(v) == v * 16777216
HasBit(flags, bit) == (flags \div bit) % 2 = 1

\* makePosHeader + sendHexHeader: a hex header (always CRC-16). Positions of
\* the model stay far below 2^32, so the four data octets hold them unchanged.
HexHdr(t, p) ==
    [k |-> "hdr", enc |-> "ZHEX", t |-> t, pos |-> p, n |-> 0, f |-> 0, ok |-> TRUE]

\* sendBinHeader: ZBIN32 when the session uses CRC-32, else ZBIN.
BinHdr(t, p, crc32) ==
    [k |-> "hdr", enc |-> IF crc32 THEN "ZBIN32" ELSE "ZBIN", t |-> t,
     pos |-> p, n |-> 0, f |-> 0, ok |-> TRUE]

\* sendSubpacket: payload of n octets taken at offset p of file f's reader,
\* closed by end-type e; enc records the CRC width it was written with.
SubPkt(kind, f, p, n, e, crc32) ==
    [k |-> kind, enc |-> IF crc32 THEN "crc32" ELSE "crc16", t |-> e,
     pos |-> p, n |-> n, f |-> f, ok |-> TRUE]

\* writeRaw of n octets that are no frame.
RawOctets(n) ==
    [k |-> "raw", enc |-> "", t |-> "", pos |-> 0, n |-> n, f |-> 0, ok |-> TRUE]

\* Five consecutive CAN octets between frames.
Can5 ==
    [k |-> "can", enc |-> "", t |-> "", pos |-> 0, n |-> 5, f |-> 0, ok |-> TRUE]

\* A ZPAD followed by five consecutive CAN octets.
PadCan5 ==
    [k |-> "padcan", enc |-> "", t |-> "", pos |-> 0, n |-> 5, f |-> 0, ok |-> TRUE]

\* The item holds five consecutive CAN octets.
HasCan5(m) == m.k \in {"can", "padcan"} /\ m.n >= 5

Max2(a, b) == IF a >= b THEN a ELSE b
Min2(a, b) == IF a <= b THEN a ELSE b

----------------------------------------------------------------------------
(* Reading from a transport *)

\* The octets of one frame on the wire, at least (no escape pair counted).
WireLen(m) ==
    CASE m.k = "raw" -> m.n
      [] m.k = "can" -> m.n
      [] m.k = "padcan" -> m.n + 1
      [] m.k = "hdr" -> IF m.enc = "ZHEX" THEN 20 ELSE IF m.enc = "ZBIN32" THEN 12 ELSE 10
      [] OTHER -> m.n + 2 + (IF m.enc = "crc32" THEN 4 ELSE 2) + (IF m.t = "ZCRCW" THEN 1 ELSE 0)

\* scanForPad + recvHeader on the item at the head of the queue, with g garbage
\* octets counted so far and max the garbage threshold. The outcome is a header,
\* an error (abort: the error is errAbortReceived itself), or "skip" when the
\* item was passed over as garbage and the scan goes on. left is what the
\* call leaves unread of the item.
Scan(g, m, max) ==
    LET total == WireLen(m)
        used  == IF g > max THEN 1 ELSE max + 1 - g
    IN  CASE m.k = "hdr" ->
                [kind |-> IF m.ok THEN "hdr" ELSE "err", h |-> m, abort |-> FALSE,
                 garbage |-> 0, left |-> 0]
          [] m.k = "can" /\ m.n >= 5 /\ g + 4 <= max ->
                [kind |-> "err", h |-> m, abort |-> TRUE, garbage |-> g + 4, left |-> m.n - 5]
          [] m.k = "padcan" /\ m.n = 5 /\ g + 4 <= max ->
                \* the first CAN is taken as the ZDLE after ZPAD, the second as a bad
                \* encoding octet; the three left do not reach the count of five
                [kind |-> "skip", h |-> m, abort |-> FALSE, garbage |-> g + 4, left |-> 0]
          [] g + total <= max ->
                [kind |-> "skip", h |-> m, abort |-> FALSE, garbage |-> g + total, left |-> 0]
          [] OTHER ->
                [kind |-> "err", h |-> m, abort |-> FALSE, garbage |-> max + 1,
                 left |-> total - used]

\* What is left at the head of the queue of an item that was read in part.
Leftover(m, left) == [k |-> IF m.k = "can" THEN "can" ELSE "raw", enc |-> "", t |-> "",
                      pos |-> 0, n |-> left, f |-> 0, ok |-> TRUE]

\* A read that fails with no octet consumed: the read deadline expired.
RxTimeout == [kind |-> "err", h |-> RawOctets(0), abort |-> FALSE, garbage |-> 0, left |-> 0]

----------------------------------------------------------------------------
(* The sender: runSender *)

NoFile == [size |-> 0, seekable |-> TRUE, eofWithData |-> FALSE]

Offer(i) == IF i \in 1..Len(env.files) THEN env.files[i] ELSE NoFile

InitSnd ==
    [state |-> "stxInit", wait |-> "none", rxLoop |-> FALSE, rbuf |-> 0, garbage |-> 0,
     curOffer |-> 0, sendIdx |-> 1, readerPos |-> 0,
     fileOffset |-> 0, bytesSent |-> 0, retries |-> 0,
     blockSize |-> InitBlockSize, goodBlocks |-> 0,
     unreliable |-> FALSE, zcrcwNext |-> FALSE, zcrcwRetries |-> 0,
     filesLeft |-> 0,
     lastAckOffset |-> 0, subpacketCount |-> 0,
     windowRetries |-> 0, zcrcqRetries |-> 0, windowEndType |-> "ZCRCQ",
     remoteFlags |-> 0, remoteWindowSize |-> 0, useCRC32 |-> FALSE, escAll |-> FALSE,
     result |-> "running", completed |-> <<>>, nextFileCalls |-> 0,
     \* history (not program state): what the claims speak about; firstZdata
     \* is the position of the first ZDATA header of the current file (-1: none),
     \* frameData the number of data-bearing subpackets sent since the last one
     confirmed |-> 0, readCan5 |-> FALSE, abortRetried |-> FALSE, abortSent |-> FALSE,
     sentAfter |-> FALSE, overWindow |-> FALSE,
     unseekable |-> FALSE, oo |-> FALSE, firstZdata |-> -1, frameData |-> 0]

\* One step of the sender: the new locals and the frames written.
Res(s, out) == [s |-> s, out |-> out, purge |-> FALSE]

\* The same, after tr.purge() discarded what was buffered.
ResPurge(s, out) == [s |-> s, out |-> out, purge |-> TRUE]

\* "return err" / "return nil" of runSender.
SndReturn(s, r) == [s EXCEPT !.state = "returned", !.wait = "none", !.rxLoop = FALSE, !.result = r]

\* handler.FileCompleted(curInfo, bytes, err) on the sender's handler.
SndCompleted(s, bytes, err) ==
    [s EXCEPT !.completed = Append(@, [file |-> s.curOffer, bytes |-> bytes, err |-> err,
                                        calls |-> s.nextFileCalls])]

\* processZRINIT: flags from ZF0, window from Data[0..1], CRC-32 and escape negotiation.
processZRINIT(s, h) ==
    [s EXCEPT !.remoteFlags = ZF0(h),
              !.remoteWindowSize = h.pos % 65536,
              !.useCRC32 = IF env.sCfg.Use32BitCRC /\ HasBit(ZF0(h), CANFC32) THEN TRUE ELSE @,
              !.escAll = IF HasBit(ZF0(h), ESCCTL) THEN TRUE ELSE @]

\* seekFile: fails unless the reader is an io.ReadSeeker.
CanSeek(s) == Offer(s.curOffer).seekable

\* The recovery every ZRPOS of the data phase triggers (after a successful seek).
ZrposRecover(s, newPos) ==
    [s EXCEPT !.readerPos = newPos,
              !.fileOffset = newPos,
              !.bytesSent = newPos,
              !.blockSize = Max2(s.blockSize \div ZrposDivisor, MinBlockSize),
              !.goodBlocks = 0,
              !.unreliable = TRUE,
              !.zcrcwNext = TRUE,
              !.zcrcwRetries = 0,
              !.confirmed = newPos]

\* recvHeaderRetry came back with an error: every state returns it, except
\* stxFinAck, which takes any error as the end of the session.
RhrFailed(s, err) ==
    IF s.state = "stxFinAck" THEN SndReturn(s, "nil") ELSE SndReturn(s, err)

\* Entering recvHeaderRetry: the retry budget is checked before the first read.
EnterRhr(s) ==
    IF s.retries >= env.sCfg.MaxRetries
    THEN RhrFailed(s, "max retries")
    ELSE [s EXCEPT !.wait = "hdr", !.rxLoop = FALSE]

\* marshalFileInfo + sendSubpacket(meta, ZCRCW): the ZFILE metadata subpacket.
\* pos carries the announced size, n the files-remaining hint.
InfoPkt(f, size, left, crc32) ==
    [k |-> "info", enc |-> IF crc32 THEN "crc32" ELSE "crc16", t |-> "ZCRCW",
     pos |-> size, n |-> left, f |-> f, ok |-> TRUE]

\* stxInit: the auto-download string and ZRQINIT, then wait for ZRINIT.
SndInit(s) ==
    Res(EnterRhr(s), <<RawOctets(AutoDownloadLen), HexHdr("ZRQINIT", 0)>>)

\* stxSInit: ZSINIT header and the attention subpacket, then wait for ZACK.
SndSInit(s) ==
    Res(EnterRhr(s),
        <<BinHdr("ZSINIT", IF env.sCfg.EscapeAll THEN WithZF0(TESCCTL) ELSE 0, s.useCRC32),
          SubPkt("attn", 0, 0, Min2(env.sCfg.AttnLen, AttnMax) + 1, "ZCRCW", s.useCRC32)>>)

\* stxNextFile: ask the handler; reset the per-file locals the code resets.
SndNextFile(s) ==
    IF s.sendIdx > Len(env.files)
    THEN Res([s EXCEPT !.state = "stxFin", !.curOffer = 0, !.nextFileCalls = @ + 1,
                       !.firstZdata = -1], <<>>)
    ELSE Res([s EXCEPT !.curOffer = s.sendIdx,
                       !.sendIdx = @ + 1,
                       !.nextFileCalls = @ + 1,
                       !.readerPos = 0,
                       !.fileOffset = 0,
                       !.bytesSent = 0,
                       !.retries = 0,
                       !.goodBlocks = 0,
                       !.zcrcwNext = FALSE,
                       !.zcrcwRetries = 0,
                       !.firstZdata = -1,
                       !.state = "stxFileInfo"], <<>>)

\* stxFileInfo: ZFILE header and metadata subpacket, then stxFileInfoAck.
SndFileInfo(s) ==
    Res(EnterRhr([s EXCEPT !.state = "stxFileInfoAck"]),
        <<BinHdr("ZFILE", WithZF0(ZCBIN), s.useCRC32),
          InfoPkt(s.curOffer, Offer(s.curOffer).size, s.filesLeft, s.useCRC32)>>)

\* stxData, before the loop: ZDATA header at fileOffset (after Znulls raw octets).
SndDataHeader(s) ==
    Res([s EXCEPT !.state = "dataLoop", !.lastAckOffset = s.fileOffset, !.subpacketCount = 0,
                  !.firstZdata = IF @ < 0 THEN s.fileOffset ELSE @, !.frameData = 0],
        (IF env.sCfg.Znulls > 0 THEN <<RawOctets(env.sCfg.Znulls)>> ELSE <<>>)
            \o <<BinHdr("ZDATA", s.fileOffset, s.useCRC32)>>)

\* stxEOF: ZEOF at fileOffset, then stxEOFAck.
SndEOF(s) ==
    Res(EnterRhr([s EXCEPT !.state = "stxEOFAck"]), <<HexHdr("ZEOF", s.fileOffset)>>)

\* stxFin: ZFIN, then stxFinAck.
SndFin(s) ==
    Res(EnterRhr([s EXCEPT !.state = "stxFinAck"]), <<HexHdr("ZFIN", 0)>>)

\* The window gate of the data loop.
WindowFull(s) ==
    s.remoteWindowSize > 0 /\ (s.fileOffset - s.lastAckOffset) >= s.remoteWindowSize

canFDX(s) == HasBit(s.remoteFlags, CANFDX)

\* An end-type choice that asks for ZACKs whether or not the receiver is full duplex.
ChooseEndTypeAnyPeer(s, atEOF) ==
    CASE s.zcrcwNext -> "ZCRCW"
      [] atEOF -> "ZCRCE"
      [] s.subpacketCount > 0 /\ s.subpacketCount % zcrcqInterval = 0 -> "ZCRCQ"
      [] OTHER -> "ZCRCG"

\* The end-type of a data-bearing subpacket.
ChooseEndType(s, atEOF) ==
    CASE s.zcrcwNext -> "ZCRCW"
      [] atEOF -> "ZCRCE"
      [] canFDX(s) /\ s.subpacketCount > 0 /\ s.subpacketCount % zcrcqInterval = 0 -> "ZCRCQ"
      [] OTHER -> "ZCRCG"

\* Block size adaptation after a good subpacket.
Adapt(s) ==
    LET adaptNeeded == IF s.unreliable THEN UnreliableGoodNeeded ELSE NormalGoodNeeded
    IN  IF s.goodBlocks >= adaptNeeded /\ s.blockSize < env.sCfg.MaxBlockSize
        THEN [s EXCEPT !.blockSize = Min2(2 * s.blockSize, env.sCfg.MaxBlockSize),
                       !.goodBlocks = 0]
        ELSE s

\* "state = stxData; sendLoop = true": leave the loop and start a new data frame.
Restart(s) == [s EXCEPT !.state = "stxData", !.wait = "none"]

\* The rest of a loop iteration after a subpacket that needs no reply (or
\* whose ZCRCQ reply was read): adaptation, progress callback, EOF transition.
AfterSubpacket(s, atEOF) ==
    LET a == Adapt(s)
    IN  [a EXCEPT !.state = IF atEOF THEN "stxEOF" ELSE "dataLoop", !.wait = "none"]

\* A read that goes to stxEOF on (0, io.EOF) without closing the data frame.
DataReadNoClose(s) ==
    LET o     == Offer(s.curOffer)
        avail == Max2(0, o.size - s.readerPos)
        n     == Min2(s.blockSize, avail)
        atEOF == o.eofWithData /\ s.readerPos + n = o.size
        et    == ChooseEndType(s, atEOF)
        s1    == [s EXCEPT !.readerPos = @ + n,
                           !.fileOffset = @ + n,
                           !.bytesSent = s.fileOffset + n,
                           !.subpacketCount = @ + 1,
                           !.goodBlocks = @ + 1,
                           !.frameData = @ + 1,
                           !.overWindow = @ \/ (n > 0 /\ s.remoteWindowSize > 0
                                   /\ s.fileOffset - s.confirmed >= s.remoteWindowSize)]
        pkt   == SubPkt("data", s.curOffer, s.readerPos, n, et, s.useCRC32)
    IN  IF s.blockSize > env.sCfg.MaxBlockSize
        THEN Res(SndReturn(s, "panic"), <<>>)
        ELSE IF n > 0
        THEN CASE et = "ZCRCW" -> Res([s1 EXCEPT !.wait = "zcrcw"], <<pkt>>)
               [] et = "ZCRCQ" -> Res([s1 EXCEPT !.wait = "zcrcq", !.zcrcqRetries = 0], <<pkt>>)
               [] OTHER -> Res(AfterSubpacket(s1, atEOF), <<pkt>>)
        ELSE Res([s EXCEPT !.state = "stxEOF"], <<>>)

\* Read(buf[:blockSize]) and what follows it in the iteration.
DataRead(s) ==
    LET o     == Offer(s.curOffer)
        avail == Max2(0, o.size - s.readerPos)
        n     == Min2(s.blockSize, avail)
        atEOF == o.eofWithData /\ s.readerPos + n = o.size
        et    == ChooseEndType(s, atEOF)
        s1    == [s EXCEPT !.readerPos = @ + n,
                           !.fileOffset = @ + n,
                           !.bytesSent = s.fileOffset + n,
                           !.subpacketCount = @ + 1,
                           !.goodBlocks = @ + 1,
                           !.frameData = @ + 1,
                           !.overWindow = @ \/ (n > 0 /\ s.remoteWindowSize > 0
                                   /\ s.fileOffset - s.confirmed >= s.remoteWindowSize)]
        pkt   == SubPkt("data", s.curOffer, s.readerPos, n, et, s.useCRC32)
    IN  IF s.blockSize > env.sCfg.MaxBlockSize
        THEN Res(SndReturn(s, "panic"), <<>>)
        ELSE IF n > 0
        THEN CASE et = "ZCRCW" -> Res([s1 EXCEPT !.wait = "zcrcw"], <<pkt>>)
               [] et = "ZCRCQ" -> Res([s1 EXCEPT !.wait = "zcrcq", !.zcrcqRetries = 0], <<pkt>>)
               [] OTHER -> Res(AfterSubpacket(s1, atEOF), <<pkt>>)
        ELSE Res([s EXCEPT !.state = "stxEOF"],
                 <<SubPkt("data", s.curOffer, s.readerPos, 0, "ZCRCE", s.useCRC32)>>)

\* The window gate and the read of one loop iteration.
GateAndRead(s) ==
    IF WindowFull(s)
    THEN LET wet == IF canFDX(s) THEN "ZCRCQ" ELSE "ZCRCW"
         IN  Res([s EXCEPT !.wait = "window", !.windowEndType = wet, !.windowRetries = 0],
                 <<SubPkt("data", s.curOffer, s.readerPos, 0, wet, s.useCRC32)>>)
    ELSE DataRead(s)

\* A ZRPOS met in the data phase: seek, and on success recover and restart.
OnDataZrpos(s, h) ==
    IF CanSeek(s)
    THEN Res(Restart(ZrposRecover(s, h.pos)), <<>>)
    ELSE Res(SndReturn([s EXCEPT !.unseekable = h.pos > 0], "seek error"), <<>>)

\* Top of a loop iteration when peekForZPAD found a frame buffered: rx is what
\* recvHeader made of it.
SndSample(s, rx) ==
    CASE rx.kind = "err" ->
            IF rx.abort THEN Res(SndReturn(s, "abort"), <<>>) ELSE GateAndRead(s)
      [] rx.h.t = "ZRPOS" -> OnDataZrpos(s, rx.h)
      [] rx.h.t = "ZACK" ->
            GateAndRead([s EXCEPT !.lastAckOffset = rx.h.pos, !.confirmed = rx.h.pos])
      [] OTHER -> GateAndRead(s)

\* computeFileCRC over a prefix of the offered file: the CRC depends on the
\* file and on how many of its octets are covered (0 = all of them).
FileCRC(f, byteCount) ==
    LET size    == Offer(f).size
        covered == IF byteCount > 0 THEN Min2(byteCount, size) ELSE size
    IN  f * 65536 + covered

\* A ZSKIP that goes unreported: the sender moves on without FileCompleted.
SndSkippedSilently(s, bytes) == [s EXCEPT !.state = "stxNextFile", !.wait = "none"]

\* "case ZSKIP": FileCompleted with ErrSkip, then the next file.
SndSkipped(s, bytes) ==
    [SndCompleted(s, bytes, "ErrSkip") EXCEPT !.state = "stxNextFile", !.wait = "none"]

\* stxInit, after recvHeaderRetry returned a header.
SndInitOn(s, h) ==
    CASE h.t = "ZRINIT" ->
            Res([processZRINIT(s, h) EXCEPT
                    !.state = IF env.sCfg.AttnLen > 0 THEN "stxSInit" ELSE "stxNextFile",
                    !.wait = "none"], <<>>)
      [] h.t = "ZCHALLENGE" ->
            Res([s EXCEPT !.wait = "none"], <<HexHdr("ZACK", h.pos)>>)
      [] OTHER -> Res(SndReturn(s, "unexpected frame"), <<>>)

\* An stxSInit that goes on to the first file whatever answers the ZSINIT.
SndSInitOnLax(s, h) ==
    CASE h.t = "ZNAK" -> Res([s EXCEPT !.retries = @ + 1, !.wait = "none"], <<>>)
      [] OTHER -> Res([s EXCEPT !.state = "stxNextFile", !.wait = "none"], <<>>)

\* stxSInit, after recvHeaderRetry returned a header.
SndSInitOn(s, h) ==
    CASE h.t = "ZACK" -> Res([s EXCEPT !.state = "stxNextFile", !.wait = "none"], <<>>)
      [] h.t = "ZNAK" -> Res([s EXCEPT !.retries = @ + 1, !.wait = "none"], <<>>)
      [] OTHER -> Res(SndReturn(s, "unexpected frame"), <<>>)

\* stxFileInfoAck, after recvHeaderRetry returned a header.
SndFileInfoAckOn(s, h) ==
    CASE h.t = "ZRPOS" ->
            LET size == Offer(s.curOffer).size
                off  == IF size > 0 /\ h.pos > size THEN 0 ELSE h.pos
            IN  IF off > 0 /\ ~CanSeek(s)
                THEN Res([SndCompleted([s EXCEPT !.fileOffset = off], 0, "not seekable")
                             EXCEPT !.state = "stxNextFile", !.wait = "none"],
                         <<HexHdr("ZSKIP", 0)>>)
                ELSE Res([s EXCEPT !.fileOffset = off,
                                   !.readerPos = IF off > 0 THEN off ELSE @,
                                   !.bytesSent = off,
                                   !.confirmed = off,
                                   !.state = "stxData", !.wait = "none"], <<>>)
      [] h.t = "ZSKIP" -> Res(SndSkipped(s, 0), <<>>)
      [] h.t = "ZCRC" ->
            IF CanSeek(s)
            THEN Res(EnterRhr(s), <<HexHdr("ZCRC", FileCRC(s.curOffer, h.pos))>>)
            ELSE Res(SndReturn([s EXCEPT !.unseekable = TRUE], "seek error"), <<>>)
      [] h.t = "ZRINIT" -> Res(EnterRhr(processZRINIT(s, h)), <<>>)
      [] h.t = "ZNAK" ->
            Res([s EXCEPT !.retries = @ + 1, !.state = "stxFileInfo", !.wait = "none"], <<>>)
      [] OTHER -> Res(SndReturn(s, "unexpected frame"), <<>>)

\* stxEOFAck, after recvHeaderRetry returned a header.
SndEOFAckOn(s, h) ==
    CASE h.t = "ZRINIT" ->
            Res([processZRINIT(SndCompleted(s, s.bytesSent, "nil"), h)
                    EXCEPT !.state = "stxNextFile", !.wait = "none"], <<>>)
      [] h.t = "ZRPOS" -> OnDataZrpos(s, h)
      [] h.t = "ZNAK" ->
            Res([s EXCEPT !.retries = @ + 1, !.state = "stxEOF", !.wait = "none"], <<>>)
      [] h.t = "ZSKIP" -> Res(SndSkipped(s, s.bytesSent), <<>>)
      [] OTHER -> Res(SndReturn(s, "unexpected frame"), <<>>)

\* A stxFinAck that writes "OO" whatever header answers the ZFIN.
SndFinAckOnAny(s, h) ==
    CASE h.t = "ZNAK" ->
            Res([s EXCEPT !.retries = @ + 1, !.state = "stxFin", !.wait = "none"], <<>>)
      [] OTHER -> Res(SndReturn([s EXCEPT !.oo = TRUE], "nil"), <<RawOctets(2)>>)

\* stxFinAck, after recvHeaderRetry returned a header.
SndFinAckOn(s, h) ==
    CASE h.t = "ZFIN" -> Res(SndReturn([s EXCEPT !.oo = TRUE], "nil"), <<RawOctets(2)>>)
      [] h.t = "ZNAK" ->
            Res([s EXCEPT !.retries = @ + 1, !.state = "stxFin", !.wait = "none"], <<>>)
      [] OTHER -> Res(SndReturn(s, "nil"), <<>>)

\* recvHeaderRetry: one pass of its loop around recvHeader, then the switch
\* of the state that called it.
SndRhrOn(s, rx) ==
    IF rx.kind = "err"
    THEN LET s1 == [s EXCEPT !.retries = @ + 1, !.abortRetried = @ \/ rx.abort]
         IN  IF s1.retries >= env.sCfg.MaxRetries
             THEN Res(RhrFailed(s1, IF rx.abort THEN "max retries (abort)" ELSE "max retries"), <<>>)
             ELSE Res([s1 EXCEPT !.rxLoop = TRUE], <<>>)
    ELSE CASE s.state = "stxInit" -> SndInitOn(s, rx.h)
           [] s.state = "stxSInit" -> SndSInitOn(s, rx.h)
           [] s.state = "stxFileInfoAck" -> SndFileInfoAckOn(s, rx.h)
           [] s.state = "stxEOFAck" -> SndEOFAckOn(s, rx.h)
           [] OTHER -> SndFinAckOn(s, rx.h)

\* One more failed read while waiting, counted against a budget.
Exhausted(count) == count + 1 >= env.sCfg.MaxRetries

\* A ZCRCW wait that takes any ZACK as the reply, whatever its position.
SndZcrcwOnAnyAck(s, rx) ==
    LET again(t) == IF Exhausted(t.zcrcwRetries)
                    THEN Res(SndReturn(t, "zcrcw retries"), <<>>)
                    ELSE Res([t EXCEPT !.zcrcwRetries = @ + 1], <<>>)
    IN  CASE rx.kind = "err" ->
                IF rx.abort THEN Res(SndReturn(s, "abort"), <<>>) ELSE again(s)
          [] rx.h.t = "ZACK" ->
                Res(Restart([s EXCEPT !.lastAckOffset = rx.h.pos,
                                      !.confirmed = rx.h.pos,
                                      !.zcrcwNext = FALSE,
                                      !.zcrcwRetries = 0]), <<>>)
          [] rx.h.t = "ZRPOS" -> OnDataZrpos(s, rx.h)
          [] OTHER -> again(s)

\* The wait for the reply to a ZCRCW data subpacket.
SndZcrcwOn(s, rx) ==
    LET again(t) == IF Exhausted(t.zcrcwRetries)
                    THEN Res(SndReturn(t, "zcrcw retries"), <<>>)
                    ELSE Res([t EXCEPT !.zcrcwRetries = @ + 1], <<>>)
    IN  CASE rx.kind = "err" ->
                IF rx.abort THEN Res(SndReturn(s, "abort"), <<>>) ELSE again(s)
          [] rx.h.t = "ZACK" ->
                IF rx.h.pos # s.fileOffset
                THEN again([s EXCEPT !.confirmed = rx.h.pos])
                ELSE Res(Restart([s EXCEPT !.lastAckOffset = rx.h.pos,
                                           !.confirmed = rx.h.pos,
                                           !.zcrcwNext = FALSE,
                                           !.zcrcwRetries = 0]), <<>>)
          [] rx.h.t = "ZRPOS" -> OnDataZrpos(s, rx.h)
          [] OTHER -> again(s)

\* The wait for the reply to a ZCRCQ data subpacket.
SndZcrcqOn(s, rx) ==
    CASE rx.kind = "err" ->
            IF Exhausted(s.zcrcqRetries)
            THEN Res(SndReturn([s EXCEPT !.abortRetried = @ \/ rx.abort], "zcrcq retries"), <<>>)
            ELSE Res([s EXCEPT !.zcrcqRetries = @ + 1, !.abortRetried = @ \/ rx.abort],
                     <<SubPkt("data", s.curOffer, s.readerPos, 0, "ZCRCQ", s.useCRC32)>>)
      [] rx.h.t = "ZACK" ->
            Res(AfterSubpacket([s EXCEPT !.lastAckOffset = rx.h.pos, !.confirmed = rx.h.pos],
                               FALSE), <<>>)
      [] rx.h.t = "ZRPOS" -> OnDataZrpos(s, rx.h)
      [] OTHER -> Res(AfterSubpacket(s, FALSE), <<>>)

\* The wait at a full window, after the zero-length subpacket.
SndWindowOn(s, rx) ==
    CASE rx.kind = "err" ->
            IF Exhausted(s.windowRetries)
            THEN Res(SndReturn([s EXCEPT !.abortRetried = @ \/ rx.abort], "window retries"), <<>>)
            ELSE Res([s EXCEPT !.windowRetries = @ + 1, !.abortRetried = @ \/ rx.abort],
                     <<SubPkt("data", s.curOffer, s.readerPos, 0, s.windowEndType, s.useCRC32)>>)
      [] rx.h.t = "ZACK" ->
            LET s1 == [s EXCEPT !.lastAckOffset = rx.h.pos, !.confirmed = rx.h.pos, !.wait = "none"]
            IN  IF s.windowEndType = "ZCRCW" THEN Res(Restart(s1), <<>>)
                ELSE IF (s1.fileOffset - s1.lastAckOffset) >= s1.remoteWindowSize
                THEN Res(s1, <<>>)
                ELSE DataRead(s1)
      [] rx.h.t = "ZRPOS" -> OnDataZrpos(s, rx.h)
      [] OTHER ->
            IF s.windowEndType = "ZCRCW" THEN Res(Restart(s), <<>>)
            ELSE Res([s EXCEPT !.wait = "none"], <<>>)

\* What the sender does with the outcome of the read it is blocked in.
SndOnRx(s, rx) ==
    CASE s.wait = "hdr" -> SndRhrOn(s, rx)
      [] s.wait = "zcrcw" -> SndZcrcwOn(s, rx)
      [] s.wait = "zcrcq" -> SndZcrcqOn(s, rx)
      [] OTHER -> SndWindowOn(s, rx)

\* What the sender does when it is not blocked in a read: the body of the
\* state it is in, up to its next read.
SndRun(s) ==
    CASE s.state = "stxInit" -> SndInit(s)
      [] s.state = "stxSInit" -> SndSInit(s)
      [] s.state = "stxNextFile" -> SndNextFile(s)
      [] s.state = "stxFileInfo" -> SndFileInfo(s)
      [] s.state = "stxData" -> SndDataHeader(s)
      [] s.state = "stxEOF" -> SndEOF(s)
      [] OTHER -> SndFin(s)

----------------------------------------------------------------------------
(* The receiver: runReceiver *)

InitRcv ==
    [state |-> "srxInit", mode |-> "none", rbuf |-> 0, garbage |-> 0, poison |-> FALSE,
     curInfo |-> [f |-> 0, size |-> 0, left |-> 0], writerOpen |-> FALSE,
     fileOffset |-> 0, bytesReceived |-> 0, retries |-> 0, consecutiveErr |-> 0,
     useCRC32 |-> FALSE, attnLen |-> 0,
     result |-> "running", completed |-> <<>>, accepted |-> <<>>, sinks |-> <<>>,
     wcalls |-> 0,
     \* history (not program state): what the claims speak about; hints is the
     \* FilesRemaining of each FileInfo handed to AcceptFile
     acceptOff |-> 0, hdrPos |-> 0, offAtFrame |-> 0,
     lastWrite |-> [n |-> 0, hdrPos |-> 0, offAtFrame |-> 0, ok |-> TRUE, before |-> 0],
     readCan5 |-> FALSE, abortRetried |-> FALSE, abortSent |-> FALSE,
     sentAfter |-> FALSE, crcFailed |-> FALSE, hints |-> <<>>]

\* "return err" / "return nil" of runReceiver.
RcvReturn(r, res) == [r EXCEPT !.state = "returned", !.mode = "none", !.result = res]

\* handler.FileCompleted(curInfo, bytes, err) on the receiver's handler.
RcvCompleted(r, bytes, err) ==
    [r EXCEPT !.completed = Append(@, [file |-> r.curInfo.f, bytes |-> bytes, err |-> err])]

\* sendZRINIT: capability flags in ZF0, window size in Data[0..1].
ZRINITHdr ==
    HexHdr("ZRINIT",
           WithZF0(CANFDX + CANOVIO
                   + (IF env.rCfg.Use32BitCRC THEN CANFC32 ELSE 0)
                   + (IF env.rCfg.EscapeAll THEN ESCCTL ELSE 0))
           + (env.rCfg.WindowSize % 65536))

\* srxInit: send ZRINIT, go to srxFileWait.
RcvInit(r) == Res([r EXCEPT !.state = "srxFileWait", !.mode = "hdr"], <<ZRINITHdr>>)

\* The handler's AcceptFile for the announced file.
AcceptPolicy(f) ==
    IF f \in 1..Len(env.accept) THEN env.accept[f] ELSE [kind |-> "accept", off |-> 0]

\* srxFileAccept: ask the handler, answer ZSKIP or ZRPOS.
RcvFileAccept(r) ==
    LET a == AcceptPolicy(r.curInfo.f)
    IN  CASE a.kind = "skip" ->
                Res([RcvCompleted(r, 0, "ErrSkip") EXCEPT
                        !.accepted = Append(@, r.curInfo.f), !.hints = Append(@, r.curInfo.left),
                        !.state = "srxFileWait", !.mode = "hdr"],
                    <<HexHdr("ZSKIP", 0)>>)
          [] a.kind = "error" ->
                Res(RcvReturn([r EXCEPT !.accepted = Append(@, r.curInfo.f), !.hints = Append(@, r.curInfo.left)], "AcceptFile error"), <<>>)
          [] OTHER ->
                Res([r EXCEPT !.accepted = Append(@, r.curInfo.f), !.hints = Append(@, r.curInfo.left),
                              !.sinks = Append(@, [f |-> r.curInfo.f, off |-> a.off, segs |-> <<>>]),
                              !.writerOpen = TRUE,
                              !.fileOffset = a.off,
                              !.bytesReceived = a.off,
                              !.retries = 0,
                              !.acceptOff = a.off,
                              !.state = "srxData", !.mode = "hdr"],
                    <<HexHdr("ZRPOS", a.off)>>)

\* An srxEOF that closes the writer and sends ZRINIT without FileCompleted.
RcvEOFSilent(r) ==
    Res([r EXCEPT !.writerOpen = FALSE, !.state = "srxFileWait", !.mode = "hdr"],
        <<ZRINITHdr>>)

\* srxEOF: close the writer, report success, send ZRINIT for the next file.
RcvEOF(r) ==
    Res([RcvCompleted(r, r.bytesReceived, "nil") EXCEPT
            !.writerOpen = FALSE, !.state = "srxFileWait", !.mode = "hdr"],
        <<ZRINITHdr>>)

\* srxFin: answer ZFIN and finish.
RcvFin(r) == Res(RcvReturn(r, "nil"), <<HexHdr("ZFIN", 0)>>)

\* What the receiver does when it is not blocked in a read.
RcvRun(r) ==
    CASE r.state = "srxInit" -> RcvInit(r)
      [] r.state = "srxFileAccept" -> RcvFileAccept(r)
      [] r.state = "srxEOF" -> RcvEOF(r)
      [] OTHER -> RcvFin(r)

\* A header wait that knows no MaxRetries: only the consecutive-error limit ends it.
RcvFileWaitErrUnbounded(r, rx) ==
    LET r1 == [r EXCEPT !.consecutiveErr = @ + 1, !.retries = @ + 1]
    IN  IF r1.consecutiveErr >= maxConsecutiveErr
        THEN Res(RcvReturn(r1, "consecutive errors"), <<>>)
        ELSE Res(r1, <<HexHdr("ZNAK", 0)>>)

\* srxFileWait, recvHeader failed.
RcvFileWaitErr(r, rx) ==
    LET r1 == [r EXCEPT !.consecutiveErr = @ + 1, !.abortRetried = @ \/ rx.abort]
        r2 == [r1 EXCEPT !.retries = @ + 1]
    IN  IF r1.consecutiveErr >= maxConsecutiveErr
        THEN Res(RcvReturn(r1, "consecutive errors"), <<>>)
        ELSE IF r2.retries >= env.rCfg.MaxRetries
        THEN Res(RcvReturn(r2, "max retries"), <<>>)
        ELSE Res(r2, <<HexHdr("ZNAK", 0)>>)

\* A FileWait that has no ZCOMMAND case: the header falls to the default branch.
RcvFileWaitOnNoCommand(r0, h) ==
    LET r == [r0 EXCEPT !.consecutiveErr = 0]
        crc == [r EXCEPT !.useCRC32 = IF h.enc = "ZBIN32" THEN TRUE ELSE @]
    IN  CASE h.t = "ZRQINIT" -> Res(r, <<ZRINITHdr>>)
          [] h.t = "ZSINIT" -> Res([crc EXCEPT !.mode = "attn"], <<>>)
          [] h.t = "ZFILE" -> Res([crc EXCEPT !.mode = "info"], <<>>)
          [] h.t = "ZFIN" -> Res([r EXCEPT !.state = "srxFin", !.mode = "none"], <<>>)
          [] h.t = "ZFREECNT" -> Res(r, <<HexHdr("ZACK", FreeCntPos)>>)
          [] OTHER ->
                LET r1 == [r EXCEPT !.consecutiveErr = @ + 1]
                IN  IF r1.consecutiveErr >= maxConsecutiveErr
                    THEN Res(RcvReturn(r1, "consecutive errors"), <<>>)
                    ELSE Res(r1, <<>>)

\* srxFileWait, recvHeader returned a header.
RcvFileWaitOn(r0, h) ==
    LET r == [r0 EXCEPT !.consecutiveErr = 0]
        crc == [r EXCEPT !.useCRC32 = IF h.enc = "ZBIN32" THEN TRUE ELSE @]
    IN  CASE h.t = "ZRQINIT" -> Res(r, <<ZRINITHdr>>)
          [] h.t = "ZSINIT" -> Res([crc EXCEPT !.mode = "attn"], <<>>)
          [] h.t = "ZFILE" -> Res([crc EXCEPT !.mode = "info"], <<>>)
          [] h.t = "ZFIN" -> Res([r EXCEPT !.state = "srxFin", !.mode = "none"], <<>>)
          [] h.t = "ZCOMMAND" -> Res(r, <<HexHdr("ZCOMPL", 0)>>)
          [] h.t = "ZFREECNT" -> Res(r, <<HexHdr("ZACK", FreeCntPos)>>)
          [] OTHER ->
                LET r1 == [r EXCEPT !.consecutiveErr = @ + 1]
                IN  IF r1.consecutiveErr >= maxConsecutiveErr
                    THEN Res(RcvReturn(r1, "consecutive errors"), <<>>)
                    ELSE Res(r1, <<>>)

\* A subpacket passes the CRC check of a reader in CRC-32 or CRC-16 mode.
SubOk(m, crc32) == m.ok /\ ((m.enc = "crc32") = crc32)

\* A ZFILE handler that knows no MaxFileSize: every announced file goes to AcceptFile.
RcvInfoOnAnySize(r, m, rxok, abort) ==
    IF rxok /\ m.k = "info" /\ SubOk(m, r.useCRC32)
    THEN Res([r EXCEPT !.curInfo = [f |-> m.f, size |-> m.pos, left |-> m.n],
                       !.state = "srxFileAccept", !.mode = "none"], <<>>)
    ELSE Res(RcvReturn(r, IF abort THEN "data error (abort)" ELSE "data error"), <<>>)

\* parseFileInfo gives FileInfo.FilesRemaining the value of the fifth field,
\* and 0 when marshalFileInfo left the field out (it writes it only when > 0).
\* srxFileWait, the metadata subpacket after a ZFILE header (rxok: recvSubpacket
\* returned its payload; abort: its error wraps errAbortReceived).
RcvInfoOn(r, m, rxok, abort) ==
    IF rxok /\ m.k = "info" /\ SubOk(m, r.useCRC32)
    THEN LET r1 == [r EXCEPT !.curInfo = [f |-> m.f, size |-> m.pos, left |-> m.n]]
         IN  IF env.rCfg.MaxFileSize > 0 /\ m.pos > env.rCfg.MaxFileSize
             THEN Res([r1 EXCEPT !.mode = "hdr"], <<HexHdr("ZSKIP", 0)>>)
             ELSE Res([r1 EXCEPT !.state = "srxFileAccept", !.mode = "none"], <<>>)
    ELSE Res(RcvReturn(r, IF abort THEN "data error (abort)" ELSE "data error"), <<>>)

\* srxFileWait, the attention subpacket after a ZSINIT header.
RcvAttnOn(r, m, rxok, abort) ==
    IF rxok /\ m.k = "attn" /\ SubOk(m, r.useCRC32)
    THEN Res([r EXCEPT !.attnLen = m.n - 1, !.mode = "hdr"], <<HexHdr("ZACK", 0)>>)
    ELSE Res(RcvReturn(r, IF abort THEN "data error (abort)" ELSE "data error"), <<>>)

\* "retries > 25": the file is given up.
RcvGiveUp(r) ==
    RcvReturn([RcvCompleted(r, r.bytesReceived, "max retries") EXCEPT !.writerOpen = FALSE],
              "max retries")

\* A header error in srxData that is answered with ZRPOS but not counted.
RcvDataErrUncounted(r, rx) ==
    LET r1 == [r EXCEPT !.consecutiveErr = @ + 1, !.abortRetried = @ \/ rx.abort]
    IN  IF r1.retries > DataRetryLimit
        THEN Res(RcvGiveUp(r1), <<>>)
        ELSE ResPurge(r1, <<HexHdr("ZRPOS", r.fileOffset)>>)

\* srxData, recvHeader failed: purge and ZRPOS.
RcvDataErr(r, rx) ==
    LET r1 == [r EXCEPT !.consecutiveErr = @ + 1, !.retries = @ + 1,
                        !.abortRetried = @ \/ rx.abort]
    IN  IF r1.retries > DataRetryLimit
        THEN Res(RcvGiveUp(r1), <<>>)
        ELSE ResPurge(r1, <<HexHdr("ZRPOS", r.fileOffset)>>)

\* A Data state that takes every ZEOF as the end of the file, whatever its position.
RcvDataOnAnyEOF(r0, h) ==
    LET r == [r0 EXCEPT !.consecutiveErr = 0]
    IN  CASE h.t = "ZDATA" ->
                IF h.pos # r.fileOffset
                THEN ResPurge([r EXCEPT !.useCRC32 = IF h.enc = "ZBIN32" THEN TRUE ELSE @],
                              <<HexHdr("ZRPOS", r.fileOffset)>>)
                ELSE Res([r EXCEPT !.useCRC32 = IF h.enc = "ZBIN32" THEN TRUE ELSE @,
                                   !.mode = "sub", !.poison = FALSE,
                                   !.hdrPos = h.pos, !.offAtFrame = r.fileOffset], <<>>)
          [] h.t = "ZEOF" ->
                Res([r EXCEPT !.state = "srxEOF", !.mode = "none"], <<>>)
          [] h.t = "ZNAK" -> Res(r, <<HexHdr("ZRPOS", r.fileOffset)>>)
          [] h.t = "ZFILE" -> Res([r EXCEPT !.mode = "dup"], <<>>)
          [] h.t = "ZFIN" ->
                Res([RcvCompleted(r, r.bytesReceived, "premature") EXCEPT
                        !.writerOpen = FALSE, !.state = "srxFin", !.mode = "none"], <<>>)
          [] h.t = "ZSKIP" ->
                Res([RcvCompleted(r, r.bytesReceived, "ErrSkip") EXCEPT
                        !.writerOpen = FALSE, !.state = "srxFileWait"], <<>>)
          [] OTHER -> Res(r, <<>>)

\* An srxData that reports a file ended by ZFIN as received.
RcvDataOnFinNil(r0, h) ==
    LET r == [r0 EXCEPT !.consecutiveErr = 0]
    IN  CASE h.t = "ZDATA" ->
                IF h.pos # r.fileOffset
                THEN ResPurge([r EXCEPT !.useCRC32 = IF h.enc = "ZBIN32" THEN TRUE ELSE @],
                              <<HexHdr("ZRPOS", r.fileOffset)>>)
                ELSE Res([r EXCEPT !.useCRC32 = IF h.enc = "ZBIN32" THEN TRUE ELSE @,
                                   !.mode = "sub", !.poison = FALSE,
                                   !.hdrPos = h.pos, !.offAtFrame = r.fileOffset], <<>>)
          [] h.t = "ZEOF" ->
                IF h.pos # r.fileOffset THEN Res(r, <<>>)
                ELSE Res([r EXCEPT !.state = "srxEOF", !.mode = "none"], <<>>)
          [] h.t = "ZNAK" -> Res(r, <<HexHdr("ZRPOS", r.fileOffset)>>)
          [] h.t = "ZFILE" -> Res([r EXCEPT !.mode = "dup"], <<>>)
          [] h.t = "ZFIN" ->
                Res([RcvCompleted(r, r.bytesReceived, "nil") EXCEPT
                        !.writerOpen = FALSE, !.state = "srxFin", !.mode = "none"], <<>>)
          [] h.t = "ZSKIP" ->
                Res([RcvCompleted(r, r.bytesReceived, "ErrSkip") EXCEPT
                        !.writerOpen = FALSE, !.state = "srxFileWait"], <<>>)
          [] OTHER -> Res(r, <<>>)

\* srxData, recvHeader returned a header.
RcvDataOn(r0, h) ==
    LET r == [r0 EXCEPT !.consecutiveErr = 0]
    IN  CASE h.t = "ZDATA" ->
                IF h.pos # r.fileOffset
                THEN ResPurge([r EXCEPT !.useCRC32 = IF h.enc = "ZBIN32" THEN TRUE ELSE @],
                              <<HexHdr("ZRPOS", r.fileOffset)>>)
                ELSE Res([r EXCEPT !.useCRC32 = IF h.enc = "ZBIN32" THEN TRUE ELSE @,
                                   !.mode = "sub", !.poison = FALSE,
                                   !.hdrPos = h.pos, !.offAtFrame = r.fileOffset], <<>>)
          [] h.t = "ZEOF" ->
                IF h.pos # r.fileOffset THEN Res(r, <<>>)
                ELSE Res([r EXCEPT !.state = "srxEOF", !.mode = "none"], <<>>)
          [] h.t = "ZNAK" -> Res(r, <<HexHdr("ZRPOS", r.fileOffset)>>)
          [] h.t = "ZFILE" -> Res([r EXCEPT !.mode = "dup"], <<>>)
          [] h.t = "ZFIN" ->
                Res([RcvCompleted(r, r.bytesReceived, "premature") EXCEPT
                        !.writerOpen = FALSE, !.state = "srxFin", !.mode = "none"], <<>>)
          [] h.t = "ZSKIP" ->
                Res([RcvCompleted(r, r.bytesReceived, "ErrSkip") EXCEPT
                        !.writerOpen = FALSE, !.state = "srxFileWait"], <<>>)
          [] OTHER -> Res(r, <<>>)

\* srxData, the subpacket of a duplicate ZFILE is consumed, whatever it is.
RcvDupOn(r) == Res([r EXCEPT !.mode = "hdr"], <<HexHdr("ZRPOS", r.fileOffset)>>)

\* A sink whose Write calls all succeed, and one whose Write number failAt
\* (counted over the session) returns an error after storing at most stored
\* octets of the payload; the Writes after it succeed.
GoodSink == [failAt |-> 0, stored |-> 0]
FailingSink(at, stored) == [failAt |-> at, stored |-> stored]

\* w.Write(data): the sink grows by n octets that are octets [p, p+n) of file f.
SinkWrite(sinks, f, p, n) ==
    LET i    == Len(sinks)
        segs == sinks[i].segs
        k    == Len(segs)
    IN  IF i = 0 THEN sinks
        ELSE IF k > 0 /\ segs[k].f = f /\ segs[k].pos + segs[k].n = p
        THEN [sinks EXCEPT ![i].segs[k].n = @ + n]
        ELSE [sinks EXCEPT ![i].segs = Append(@, [f |-> f, pos |-> p, n |-> n])]

\* srxData after receiveDataSubpackets returned an error (isCtx: the error is
\* ctx.Err()): purge, count a retry, ZRPOS; the next pass of the state loop
\* then returns the context's error.
RcvSubErr(r, isCtx, abort) ==
    LET r1 == [r EXCEPT !.retries = @ + 1, !.mode = "hdr", !.poison = FALSE,
                        !.abortRetried = @ \/ abort]
    IN  IF r1.retries > DataRetryLimit
        THEN ResPurge(RcvGiveUp(r1), <<>>)
        ELSE ResPurge(IF isCtx THEN RcvReturn(r1, "ctx") ELSE r1,
                      <<HexHdr("ZRPOS", r.fileOffset)>>)

\* A subpacket loop that acknowledges the ZCRCW subpackets only.
RcvSubOnAckW(r, m, rxok) ==
    CASE ~rxok -> RcvSubErr(r, FALSE, FALSE)
      [] HasCan5(m) -> RcvSubErr(r, FALSE, TRUE)
      [] m.k \in {"hdr", "raw", "can", "padcan"} -> Res([r EXCEPT !.poison = TRUE], <<>>)
      [] r.poison \/ ~SubOk(m, r.useCRC32) ->
            RcvSubErr([r EXCEPT !.crcFailed = @ \/ ~m.ok], FALSE, FALSE)
      [] m.n > 0 /\ env.sink.failAt = r.wcalls + 1 ->
            \* w.Write returned an error after storing part of the payload
            LET k == Min2(env.sink.stored, m.n)
            IN  RcvSubErr([r EXCEPT !.wcalls = @ + 1,
                                    !.sinks = IF k > 0 THEN SinkWrite(@, m.f, m.pos, k) ELSE @],
                          FALSE, FALSE)
      [] OTHER ->
            LET r1 == IF m.n > 0
                      THEN [r EXCEPT !.sinks = SinkWrite(@, m.f, m.pos, m.n),
                                     !.wcalls = IF @ < env.sink.failAt THEN @ + 1 ELSE @,
                                     !.fileOffset = @ + m.n,
                                     !.bytesReceived = r.fileOffset + m.n,
                                     !.retries = 0,
                                     !.lastWrite = [n |-> m.n, hdrPos |-> r.hdrPos,
                                                    offAtFrame |-> r.offAtFrame,
                                                    ok |-> m.ok, before |-> r.fileOffset]]
                      ELSE r
            IN  CASE m.t = "ZCRCG" -> Res(r1, <<>>)
                  [] m.t = "ZCRCQ" -> Res(r1, <<>>)
                  [] m.t = "ZCRCW" -> Res([r1 EXCEPT !.mode = "hdr"], <<HexHdr("ZACK", r1.fileOffset)>>)
                  [] OTHER -> Res([r1 EXCEPT !.mode = "hdr"], <<>>)

\* receiveDataSubpackets: one pass of its loop, recvSubpacket having met item m
\* (rxok = FALSE: the read itself failed).
RcvSubOn(r, m, rxok) ==
    CASE ~rxok -> RcvSubErr(r, FALSE, FALSE)
      [] HasCan5(m) -> RcvSubErr(r, FALSE, TRUE)
      [] m.k \in {"hdr", "raw", "can", "padcan"} -> Res([r EXCEPT !.poison = TRUE], <<>>)
      [] r.poison \/ ~SubOk(m, r.useCRC32) ->
            RcvSubErr([r EXCEPT !.crcFailed = @ \/ ~m.ok], FALSE, FALSE)
      [] m.n > 0 /\ env.sink.failAt = r.wcalls + 1 ->
            \* w.Write returned an error after storing part of the payload
            LET k == Min2(env.sink.stored, m.n)
            IN  RcvSubErr([r EXCEPT !.wcalls = @ + 1,
                                    !.sinks = IF k > 0 THEN SinkWrite(@, m.f, m.pos, k) ELSE @],
                          FALSE, FALSE)
      [] OTHER ->
            LET r1 == IF m.n > 0
                      THEN [r EXCEPT !.sinks = SinkWrite(@, m.f, m.pos, m.n),
                                     !.wcalls = IF @ < env.sink.failAt THEN @ + 1 ELSE @,
                                     !.fileOffset = @ + m.n,
                                     !.bytesReceived = r.fileOffset + m.n,
                                     !.retries = 0,
                                     !.lastWrite = [n |-> m.n, hdrPos |-> r.hdrPos,
                                                    offAtFrame |-> r.offAtFrame,
                                                    ok |-> m.ok, before |-> r.fileOffset]]
                      ELSE r
            IN  CASE m.t = "ZCRCG" -> Res(r1, <<>>)
                  [] m.t = "ZCRCQ" -> Res(r1, <<HexHdr("ZACK", r1.fileOffset)>>)
                  [] m.t = "ZCRCW" -> Res([r1 EXCEPT !.mode = "hdr"], <<HexHdr("ZACK", r1.fileOffset)>>)
                  [] OTHER -> Res([r1 EXCEPT !.mode = "hdr"], <<>>)

\* What the receiver does with the outcome rx of the header read it is blocked in.
RcvHdrOn(r, rx) ==
    IF r.state = "srxFileWait"
    THEN IF rx.kind = "err" THEN RcvFileWaitErr(r, rx) ELSE RcvFileWaitOn(r, rx.h)
    ELSE IF rx.kind = "err" THEN RcvDataErr(r, rx) ELSE RcvDataOn(r, rx.h)

\* What the receiver does with item m met by the subpacket read it is blocked in.
RcvPktOn(r, m, rxok) ==
    CASE r.mode = "info" -> RcvInfoOn(r, m, rxok, HasCan5(m))
      [] r.mode = "attn" -> RcvAttnOn(r, m, rxok, HasCan5(m))
      [] r.mode = "dup" -> RcvDupOn(r)
      [] OTHER -> RcvSubOn(r, m, rxok)

----------------------------------------------------------------------------
(* The two calls running against each other over the transport *)

\* peekForZPAD: some buffered octet is a ZPAD or a CAN.
PeekZPAD(q, b) == \E i \in 1..Min2(b, Len(q)) : q[i].k \in {"hdr", "can", "padcan"}

\* bufio fill: a read that finds the buffer empty fetches the item at the head
\* of the queue and may fetch up to most - 1 items behind it.
Refill(q, b, most) ==
    IF b > 0 THEN {b - 1} ELSE 0..Min2(most - 1, Len(q) - 1)

\* The queue after its head was read, but for left octets of it.
Unread(q, m, left) == (IF left > 0 THEN <<Leftover(m, left)>> ELSE <<>>) \o Tail(q)

\* The queue after purge dropped the b items that were buffered.
Drop(q, b) == SubSeq(q, b + 1, Len(q))

\* History kept beside a step r of a call whose record was old: can5, the step
\* read five consecutive CAN octets; cancelled, its context was cancelled.
Note(old, r, can5, cancelled) ==
    [r.s EXCEPT !.readCan5 = old.readCan5 \/ can5,
                !.abortSent = old.abortSent \/ ((old.readCan5 \/ can5) /\ r.out # <<>>),
                !.sentAfter = old.sentAfter \/ (cancelled /\ r.out # <<>>)]

\* Send, not blocked in a read: the body of the current state up to its next read.
SndStep ==
    /\ snd.state # "returned" /\ snd.wait = "none" /\ ~ctx.s
    /\ LET r == IF snd.state = "dataLoop"
                THEN IF PeekZPAD(r2s, snd.rbuf)
                     THEN Res([snd EXCEPT !.wait = "peek"], <<>>)
                     ELSE GateAndRead(snd)
                ELSE SndRun(snd)
       IN  /\ snd' = Note(snd, r, FALSE, ctx.s)
           /\ s2r' = s2r \o r.out
    /\ UNCHANGED <<env, rcv, r2s, ctx, faults, gd>>

\* Send polls its context (top of the state loop, top of the data loop, each
\* pass of recvHeaderRetry) and finds it cancelled.
SndPoll ==
    /\ snd.state # "returned" /\ snd.wait \in {"none", "hdr"} /\ ctx.s
    /\ snd' = IF snd.wait = "hdr" /\ snd.rxLoop THEN RhrFailed(snd, "ctx") ELSE SndReturn(snd, "ctx")
    /\ UNCHANGED <<env, rcv, s2r, r2s, ctx, faults, gd>>

\* Send, blocked in recvHeader, reads the next item of the reverse channel.
SndRecv ==
    /\ snd.state # "returned" /\ snd.wait # "none" /\ r2s # <<>>
    /\ \E nb \in Refill(r2s, snd.rbuf, env.coalesce.s) :
        LET m   == Head(r2s)
            sc  == Scan(snd.garbage, m, env.sCfg.GarbageThreshold)
            lb  == nb + (IF sc.left > 0 THEN 1 ELSE 0)
            s0  == [snd EXCEPT !.garbage = sc.garbage, !.rbuf = lb]
            r   == IF sc.kind = "skip" THEN Res(s0, <<>>)
                   ELSE IF snd.wait = "peek" THEN SndSample([s0 EXCEPT !.wait = "none"], sc)
                   ELSE SndOnRx(s0, sc)
        IN  /\ snd' = Note(snd, r, HasCan5(m) /\ m.n - sc.left >= 5, ctx.s)
            /\ s2r' = s2r \o r.out
            /\ r2s' = Unread(r2s, m, sc.left)
    /\ UNCHANGED <<env, rcv, ctx, faults, gd>>

\* Neither call can go on without the other: each has returned or is blocked
\* in a read with nothing in flight towards it.
Quiet ==
    /\ snd.state = "returned" \/ (snd.wait # "none" /\ r2s = <<>>)
    /\ rcv.state = "returned" \/ (rcv.mode # "none" /\ s2r = <<>>)

\* Send, blocked in recvHeader with nothing to read: the read deadline expires
\* (deadlines are long against the peer's reaction: they expire only when the
\* peer has nothing left to do).
SndTimeout ==
    /\ env.timeouts /\ Quiet
    /\ snd.state # "returned"
    /\ LET r == IF snd.wait = "peek" THEN SndSample([snd EXCEPT !.wait = "none"], RxTimeout)
                ELSE SndOnRx(snd, RxTimeout)
       IN  /\ snd' = Note(snd, r, FALSE, ctx.s)
           /\ s2r' = s2r \o r.out
    /\ UNCHANGED <<env, rcv, r2s, ctx, faults, gd>>

\* Receive, not blocked in a read.
RcvStep ==
    /\ rcv.state # "returned" /\ rcv.mode = "none" /\ ~ctx.r
    /\ LET r == RcvRun(rcv)
       IN  /\ rcv' = Note(rcv, r, FALSE, ctx.r)
           /\ r2s' = r2s \o r.out
    /\ UNCHANGED <<env, snd, s2r, ctx, faults, gd>>

\* Receive polls its context (top of the state loop, top of the subpacket loop)
\* and finds it cancelled.
RcvPoll ==
    /\ rcv.state # "returned" /\ rcv.mode \in {"none", "hdr", "sub"} /\ ctx.r
    /\ LET r == IF rcv.mode = "sub" THEN RcvSubErr(rcv, TRUE, FALSE)
                ELSE Res(RcvReturn(rcv, "ctx"), <<>>)
       IN  /\ rcv' = [Note(rcv, r, FALSE, ctx.r) EXCEPT !.rbuf = IF r.purge THEN 0 ELSE @]
           /\ r2s' = r2s \o r.out
           /\ s2r' = IF r.purge THEN Drop(s2r, rcv.rbuf) ELSE s2r
    /\ UNCHANGED <<env, snd, ctx, faults, gd>>

\* Receive, blocked in recvHeader or recvSubpacket, reads the next item.
RcvRecv ==
    /\ rcv.state # "returned" /\ rcv.mode # "none" /\ s2r # <<>>
    /\ \E nb \in Refill(s2r, rcv.rbuf, env.coalesce.r) :
        LET m   == Head(s2r)
            sc  == IF rcv.mode = "hdr"
                   THEN Scan(rcv.garbage, m, env.rCfg.GarbageThreshold)
                   ELSE [kind |-> "pkt", h |-> m, abort |-> FALSE,
                         garbage |-> rcv.garbage, left |-> 0]
            lb  == nb + (IF sc.left > 0 THEN 1 ELSE 0)
            r0  == [rcv EXCEPT !.garbage = sc.garbage, !.rbuf = lb]
            r   == CASE sc.kind = "skip" -> Res(r0, <<>>)
                     [] sc.kind = "pkt" -> RcvPktOn(r0, m, TRUE)
                     [] OTHER -> RcvHdrOn(r0, sc)
            q   == Unread(s2r, m, sc.left)
        IN  /\ rcv' = [Note(rcv, r, HasCan5(m) /\ m.n - sc.left >= 5, ctx.r)
                        EXCEPT !.rbuf = IF r.purge THEN 0 ELSE @]
            /\ r2s' = r2s \o r.out
            /\ s2r' = IF r.purge THEN Drop(q, lb) ELSE q
    /\ UNCHANGED <<env, snd, ctx, faults, gd>>

\* Receive, blocked in a read with nothing to read: the read deadline expires.
RcvTimeout ==
    /\ env.timeouts /\ Quiet
    /\ rcv.state # "returned"
    /\ LET r == IF rcv.mode = "hdr" THEN RcvHdrOn(rcv, RxTimeout)
                ELSE RcvPktOn(rcv, RawOctets(0), FALSE)
       IN  /\ rcv' = Note(rcv, r, FALSE, ctx.r)
           /\ r2s' = r2s \o r.out
    /\ UNCHANGED <<env, snd, s2r, ctx, faults, gd>>

----------------------------------------------------------------------------
(* Configurations *)

SenderCfg(use32, attn) ==
    [MaxBlockSize |-> DefaultMaxBlockSize, MaxRetries |-> SmallMaxRetries,
     Use32BitCRC |-> use32, AttnLen |-> attn, EscapeAll |-> FALSE, Znulls |-> 0,
     GarbageThreshold |-> DefaultGarbageThreshold]

ReceiverCfg(use32, window) ==
    [MaxRetries |-> SmallMaxRetries, Use32BitCRC |-> use32, EscapeAll |-> FALSE,
     WindowSize |-> window, MaxFileSize |-> 0,
     GarbageThreshold |-> DefaultGarbageThreshold]

File(size, seekable, eofWithData) ==
    [size |-> size, seekable |-> seekable, eofWithData |-> eofWithData]

Accept(off) == [kind |-> "accept", off |-> off]
Skip == [kind |-> "skip", off |-> 0]

\* The files a batch is made of: an empty file, a file shorter than two
\* blocks, and a file long enough for block growth and a ZCRCQ subpacket.
FileKinds ==
    {File(0, TRUE, FALSE), File(SmallSize, FALSE, TRUE), File(SmallSize, TRUE, FALSE),
     File(LargeSize, TRUE, FALSE)}

Batches == {<<>>} \cup {<<a>> : a \in FileKinds} \cup {<<a, b>> : a, b \in FileKinds}

NoFaults == [corrupt |-> 0, inject |-> 0, aborts |-> 0, cancels |-> 0]

Calls == 1..MaxCalls

\* A fresh Session and MaxCalls calls that have not been made yet. deadline:
\* a read deadline is set on the transport; writes: frames written to it;
\* how: the way the last admitted call left runSender / runReceiver.
InitGuard ==
    [active |-> FALSE, deadline |-> FALSE, writes |-> 0, how |-> "",
     calls |-> [c \in Calls |-> [pc |-> "idle", kind |-> "", result |-> ""]]]

\* Send and Receive of two Sessions joined by a reliable, in-order transport;
\* the receiving handler accepts every file at offset 0.
LoopEnvs ==
    { [files |-> b, accept |-> [i \in 1..Len(b) |-> Accept(0)],
       sCfg |-> SenderCfg(u, a), rCfg |-> ReceiverCfg(u, w),
       coalesce |-> [s |-> c, r |-> c], timeouts |-> FALSE, sink |-> GoodSink]
      : b \in Batches, u \in BOOLEAN, a \in {0, 2}, w \in {0, SmallWindow}, c \in 1..MaxCoalesce }

InitLoop ==
    /\ env \in LoopEnvs
    /\ snd = InitSnd /\ rcv = InitRcv
    /\ s2r = <<>> /\ r2s = <<>>
    /\ ctx = [s |-> FALSE, r |-> FALSE]
    /\ faults = NoFaults
    /\ gd = InitGuard

NextLoop == SndStep \/ SndRecv \/ RcvStep \/ RcvRecv

FairLoop == WF_vars(SndStep) /\ WF_vars(SndRecv) /\ WF_vars(RcvStep) /\ WF_vars(RcvRecv)

SpecLoop == InitLoop /\ [][NextLoop]_vars /\ FairLoop

----------------------------------------------------------------------------
(* What a finished transfer looks like *)

\* The sink of a file of the given size accepted at offset off holds exactly
\* the file's octets from off on, once, in order.
IntactSink(f, off, size) ==
    [f |-> f, off |-> off,
     segs |-> IF size > off THEN <<[f |-> f, pos |-> off, n |-> size - off]>> ELSE <<>>]

\* Every file of the batch went through AcceptFile in NextFile order, arrived
\* intact and was reported complete with a nil error on both sides.
BatchDelivered ==
    LET n == Len(env.files)
    IN  /\ rcv.accepted = [i \in 1..n |-> i]
        /\ rcv.sinks = [i \in 1..n |-> IntactSink(i, 0, env.files[i].size)]
        /\ Len(rcv.completed) = n
        /\ \A i \in 1..n : rcv.completed[i] = [file |-> i, bytes |-> env.files[i].size, err |-> "nil"]
        /\ Len(snd.completed) = n
        /\ \A i \in 1..n : /\ snd.completed[i].file = i
                           /\ snd.completed[i].bytes = env.files[i].size
                           /\ snd.completed[i].err = "nil"

BothReturnedNil == snd.result = "nil" /\ rcv.result = "nil"

\* C1: over a reliable in-order transport, with a handler accepting every file
\* at offset 0, Send and Receive both eventually return nil with every file of
\* the batch delivered intact, in order, and reported complete without error.
C1_LoopbackCompletes == <>(BothReturnedNil /\ BatchDelivered)

----------------------------------------------------------------------------
(* The Session guard: Send / Receive / acquire / release on one Session *)

\* An acquire that admits every call.
acquireUnchecked(g) == [ok |-> TRUE, g |-> [g EXCEPT !.active = TRUE]]

\* acquire, under the mutex: fails if a call is active, else marks the Session active.
acquire(g) ==
    IF g.active THEN [ok |-> FALSE, g |-> g] ELSE [ok |-> TRUE, g |-> [g EXCEPT !.active = TRUE]]

\* release, under the mutex.
release(g) == [g EXCEPT !.active = FALSE]

\* A clearDeadline that leaves the read deadline in place.
clearDeadlineSkipped(g) == g

\* clearDeadline: removes the read deadline of the transport.
clearDeadline(g) == [g EXCEPT !.deadline = FALSE]

\* Send or Receive is called: acquire, and on failure return at once (the
\* deferred release and clearDeadline are registered only after a success).
GdCall(c, kind) ==
    /\ gd.calls[c].pc = "idle"
    /\ LET a == acquire(gd)
       IN  gd' = IF a.ok
                 THEN [a.g EXCEPT !.calls[c] = [pc |-> "running", kind |-> kind, result |-> ""]]
                 ELSE [a.g EXCEPT !.calls[c] = [pc |-> "done", kind |-> kind,
                                                result |-> "session already active"]]
    /\ UNCHANGED <<env, snd, rcv, s2r, r2s, ctx, faults>>

\* The admitted call is inside runSender / runReceiver: it writes a frame and
\* arms the read deadline before a read.
GdRun(c) ==
    /\ gd.calls[c].pc = "running"
    /\ gd.writes < MaxWrites
    /\ gd' = [gd EXCEPT !.writes = @ + 1, !.deadline = TRUE]
    /\ UNCHANGED <<env, snd, rcv, s2r, r2s, ctx, faults>>

\* The ways runSender / runReceiver end: nil, a protocol error, an exhausted
\* retry budget, the context's error, a run-time panic.
ReturnPaths == {"nil", "protocol error", "max retries", "ctx", "panic"}

\* runSender / runReceiver returns; the deferred clearDeadline runs first.
GdReturn(c) ==
    /\ gd.calls[c].pc = "running"
    /\ \E h \in ReturnPaths :
         gd' = [clearDeadline(gd) EXCEPT !.calls[c].pc = "releasing", !.how = h]
    /\ UNCHANGED <<env, snd, rcv, s2r, r2s, ctx, faults>>

\* The deferred release runs and the call returns.
GdRelease(c) ==
    /\ gd.calls[c].pc = "releasing"
    /\ gd' = [release(gd) EXCEPT !.calls[c].pc = "done", !.calls[c].result = "returned"]
    /\ UNCHANGED <<env, snd, rcv, s2r, r2s, ctx, faults>>

DefaultEnv ==
    [files |-> <<>>, accept |-> <<>>, sCfg |-> SenderCfg(FALSE, 0),
     rCfg |-> ReceiverCfg(FALSE, 0), coalesce |-> [s |-> 1, r |-> 1], timeouts |-> FALSE, sink |-> GoodSink]

InitGuardSpec ==
    /\ env = DefaultEnv
    /\ snd = InitSnd /\ rcv = InitRcv
    /\ s2r = <<>> /\ r2s = <<>>
    /\ ctx = [s |-> FALSE, r |-> FALSE]
    /\ faults = NoFaults
    /\ gd = InitGuard

NextGuard ==
    \/ \E c \in Calls, kind \in {"Send", "Receive"} : GdCall(c, kind)
    \/ \E c \in Calls : GdRun(c)
    \/ \E c \in Calls : GdReturn(c)
    \/ \E c \in Calls : GdRelease(c)

SpecGuard == InitGuardSpec /\ [][NextGuard]_vars

\* The calls that are past acquire and have not released yet.
Admitted(g) == {c \in Calls : g.calls[c].pc \in {"running", "releasing"}}

\* A step in which call c arrives and is turned away.
Rejected(c) ==
    gd.calls[c].pc = "idle" /\ gd'.calls[c].result = "session already active"

\* C2: at most one call is inside runSender/runReceiver at any time; a call
\* that arrives while another is active gets the 'session already active'
\* error and leaves the transport, the active flag and the read deadline as
\* they were; a call that arrives when no call is active is admitted.
C2_SessionGuard ==
    /\ [](Cardinality(Admitted(gd)) <= 1)
    /\ [][\A c \in Calls :
            /\ (gd.calls[c].pc = "idle" /\ gd'.calls[c].pc # "idle" /\ Admitted(gd) # {})
                   => Rejected(c)
            /\ Rejected(c) => /\ gd'.active = gd.active
                              /\ gd'.deadline = gd.deadline
                              /\ gd'.writes = gd.writes
                              /\ Admitted(gd') = Admitted(gd)
            /\ (gd.calls[c].pc = "idle" /\ gd'.calls[c].pc # "idle" /\ Admitted(gd) = {})
                   => gd'.calls[c].pc = "running"]_vars

\* A call was turned away while another was running with its deadline armed
\* and frames written, after an earlier call had returned.
C2_Witness ==
    \E a, b, c \in Calls :
        /\ gd.calls[a].result = "returned"
        /\ gd.calls[b].pc = "running" /\ gd.deadline /\ gd.writes > 0
        /\ gd.calls[c].result = "session already active"

----------------------------------------------------------------------------
(* A transport that damages data *)

\* An octet of the data subpacket at the head of the forward channel is
\* changed in transit: its CRC no longer matches.
Corrupt ==
    /\ faults.corrupt < MaxCorrupt
    /\ s2r # <<>> /\ Head(s2r).k = "data" /\ Head(s2r).ok
    /\ rcv.rbuf = 0
    /\ s2r' = [s2r EXCEPT ![1].ok = FALSE]
    /\ faults' = [faults EXCEPT !.corrupt = @ + 1]
    /\ UNCHANGED <<env, snd, rcv, r2s, ctx, gd>>

SeekableKinds == {k \in FileKinds : k.seekable}

\* One or two files with seekable readers, accepted at offset 0, sent without
\* an attention sequence over a transport that delivers one Flush per read.
CorruptEnvs ==
    { [files |-> b, accept |-> [i \in 1..Len(b) |-> Accept(0)],
       sCfg |-> SenderCfg(u, 0), rCfg |-> ReceiverCfg(u, w),
       coalesce |-> [s |-> 1, r |-> 1], timeouts |-> FALSE, sink |-> GoodSink]
      : b \in {<<a>> : a \in SeekableKinds} \cup {<<a, b>> : a, b \in SeekableKinds},
        u \in BOOLEAN, w \in {0, SmallWindow} }

InitCorrupt ==
    /\ env \in CorruptEnvs
    /\ snd = InitSnd /\ rcv = InitRcv
    /\ s2r = <<>> /\ r2s = <<>>
    /\ ctx = [s |-> FALSE, r |-> FALSE]
    /\ faults = NoFaults
    /\ gd = InitGuard

NextCorrupt == SndStep \/ SndRecv \/ RcvStep \/ RcvRecv \/ Corrupt

SpecCorrupt == InitCorrupt /\ [][NextCorrupt]_vars /\ FairLoop

\* C3: once a corrupted data subpacket has failed its CRC check at the
\* receiver, the transfer still completes: both calls return nil and every
\* sink holds exactly the file's octets, each once and in order.
C3_RecoversFromCorruption == rcv.crcFailed ~> (BothReturnedNil /\ BatchDelivered)

\* The same with a stream transport towards the sender: one read may deliver
\* several of the receiver's headers at once.
StreamEnvs ==
    { [files |-> <<a>>, accept |-> <<Accept(0)>>,
       sCfg |-> SenderCfg(u, 0), rCfg |-> ReceiverCfg(u, 0),
       coalesce |-> [s |-> MaxCoalesce, r |-> 1], timeouts |-> FALSE, sink |-> GoodSink]
      : a \in SeekableKinds, u \in BOOLEAN }

InitStream ==
    /\ env \in StreamEnvs
    /\ snd = InitSnd /\ rcv = InitRcv
    /\ s2r = <<>> /\ r2s = <<>>
    /\ ctx = [s |-> FALSE, r |-> FALSE]
    /\ faults = NoFaults
    /\ gd = InitGuard

NextStream == SndStep \/ SndRecv \/ RcvStep \/ RcvRecv \/ Corrupt

SpecStream == InitStream /\ [][NextStream]_vars /\ FairLoop

\* C3 as stated, for any transport: after the CRC failure of a corrupted data
\* subpacket both calls eventually return nil with the files intact.
C3_AnyTransport == rcv.crcFailed ~> (BothReturnedNil /\ BatchDelivered)

----------------------------------------------------------------------------
(* The receiver's offset against what reaches its sink *)

\* A frame that is not the sender's next one turns up in front of the receiver:
\* a ZDATA header with some position (a duplicate, a stale retransmission),
\* or a well-formed data subpacket carrying octets that are not the file's.
StrayFrames ==
    {BinHdr("ZDATA", p, env.sCfg.Use32BitCRC) : p \in {0, ResumeAt, SmallSize}}
    \cup {SubPkt("data", 0, 0, PartialStored, "ZCRCG", env.sCfg.Use32BitCRC)}

Inject ==
    /\ faults.inject < MaxInject
    /\ rcv.state = "srxData" /\ rcv.rbuf = 0
    /\ \E m \in StrayFrames : s2r' = <<m>> \o s2r
    /\ faults' = [faults EXCEPT !.inject = @ + 1]
    /\ UNCHANGED <<env, snd, rcv, r2s, ctx, gd>>

\* One seekable file, accepted at offset 0 or resumed at ResumeAt, written to a
\* sink that takes every Write or fails its first one.
RecvEnvs ==
    { [files |-> <<File(SmallSize, TRUE, FALSE)>>, accept |-> <<Accept(o)>>,
       sCfg |-> SenderCfg(u, 0), rCfg |-> ReceiverCfg(u, 0),
       coalesce |-> [s |-> 1, r |-> 1], timeouts |-> FALSE, sink |-> k]
      : o \in {0, ResumeAt}, u \in BOOLEAN,
        k \in {GoodSink, FailingSink(1, PartialStored)} }

InitRecv ==
    /\ env \in RecvEnvs
    /\ snd = InitSnd /\ rcv = InitRcv
    /\ s2r = <<>> /\ r2s = <<>>
    /\ ctx = [s |-> FALSE, r |-> FALSE]
    /\ faults = NoFaults
    /\ gd = InitGuard

NextRecv == SndStep \/ SndRecv \/ RcvStep \/ RcvRecv \/ Corrupt \/ Inject

SpecRecv == InitRecv /\ [][NextRecv]_vars /\ FairLoop

RECURSIVE SegBytes(_)
SegBytes(segs) == IF segs = <<>> THEN 0 ELSE Head(segs).n + SegBytes(Tail(segs))

\* The octets written to the sink of the file the receiver is handling.
SinkBytes == IF rcv.sinks = <<>> THEN 0 ELSE SegBytes(rcv.sinks[Len(rcv.sinks)].segs)

\* The receiver, waiting for a header in srxData, reads a well-formed ZDATA
\* header whose position is not its fileOffset.
ReadsMismatchedZDATA ==
    /\ rcv.state = "srxData" /\ rcv.mode = "hdr" /\ rcv' # rcv
    /\ s2r # <<>> /\ Head(s2r).k = "hdr" /\ Head(s2r).ok
    /\ Head(s2r).t = "ZDATA" /\ Head(s2r).pos # rcv.fileOffset

\* C4: while Receive handles a file, fileOffset is the offset AcceptFile
\* returned plus the octets written to the sink, every write came from a
\* subpacket with a good CRC inside a frame whose ZDATA position was fileOffset
\* when the frame began, and a ZDATA header with any other position causes no
\* write and a ZRPOS at fileOffset.
C4_OffsetMatchesSink ==
    /\ [](rcv.writerOpen =>
            /\ rcv.fileOffset = rcv.acceptOff + SinkBytes
            /\ rcv.lastWrite.ok
            /\ rcv.lastWrite.hdrPos = rcv.lastWrite.offAtFrame)
    /\ [][ReadsMismatchedZDATA =>
            /\ rcv'.sinks = rcv.sinks /\ rcv'.fileOffset = rcv.fileOffset
            /\ r2s' = Append(r2s, HexHdr("ZRPOS", rcv.fileOffset))]_vars

----------------------------------------------------------------------------
(* The abort sequence *)

\* Five consecutive CAN octets reach one of the calls, on their own or right
\* after a ZPAD: before whatever is in flight towards it, or behind it.
InjectCan ==
    /\ faults.aborts < MaxAborts
    /\ \E m \in {Can5, PadCan5} :
         \/ /\ rcv.state # "returned"
            /\ s2r' \in (IF rcv.rbuf = 0 THEN {<<m>> \o s2r} ELSE {}) \cup {Append(s2r, m)}
            /\ r2s' = r2s
         \/ /\ snd.state # "returned"
            /\ r2s' \in (IF snd.rbuf = 0 THEN {<<m>> \o r2s} ELSE {}) \cup {Append(r2s, m)}
            /\ s2r' = s2r
    /\ faults' = [faults EXCEPT !.aborts = @ + 1]
    /\ UNCHANGED <<env, snd, rcv, ctx, gd>>

\* One file of any kind, with or without a receive window, over a transport
\* whose reads towards the sender may return two frames at once.
AbortEnvs ==
    { [files |-> <<a>>, accept |-> <<Accept(0)>>,
       sCfg |-> SenderCfg(FALSE, 0), rCfg |-> ReceiverCfg(FALSE, w),
       coalesce |-> [s |-> c, r |-> 1], timeouts |-> FALSE, sink |-> GoodSink]
      : a \in FileKinds, w \in {0, SmallWindow}, c \in 1..MaxCoalesce }

InitAbort ==
    /\ env \in AbortEnvs
    /\ snd = InitSnd /\ rcv = InitRcv
    /\ s2r = <<>> /\ r2s = <<>>
    /\ ctx = [s |-> FALSE, r |-> FALSE]
    /\ faults = NoFaults
    /\ gd = InitGuard

NextAbort == SndStep \/ SndRecv \/ RcvStep \/ RcvRecv \/ InjectCan

SpecAbort == InitAbort /\ [][NextAbort]_vars /\ FairLoop

\* The errors that are, or wrap, errAbortReceived.
AbortErrors == {"abort", "data error (abort)", "max retries (abort)"}

\* The call whose record is c has read five consecutive CAN octets and did
\* what the abort asks for.
Aborted(c) ==
    /\ c.state = "returned" /\ c.result \in AbortErrors
    /\ ~c.abortRetried /\ ~c.abortSent

\* C5: once a running Send or Receive has read five consecutive CAN octets, it
\* has returned the abort error, without counting a retry for them and without
\* writing any frame after them.
C5_AbortOnCan5 ==
    /\ snd.readCan5 => Aborted(snd)
    /\ rcv.readCan5 => Aborted(rcv)

----------------------------------------------------------------------------
(* Cancellation *)

\* The caller cancels the context of a call that is still running.
Cancel ==
    /\ faults.cancels < MaxCancels
    /\ \/ snd.state # "returned" /\ ~ctx.s /\ ctx' = [ctx EXCEPT !.s = TRUE]
       \/ rcv.state # "returned" /\ ~ctx.r /\ ctx' = [ctx EXCEPT !.r = TRUE]
    /\ faults' = [faults EXCEPT !.cancels = @ + 1]
    /\ UNCHANGED <<env, snd, rcv, s2r, r2s, gd>>

\* An empty batch or one short file, over a transport with read deadlines.
CancelEnvs ==
    { [files |-> b, accept |-> [i \in 1..Len(b) |-> Accept(0)],
       sCfg |-> SenderCfg(FALSE, 0), rCfg |-> ReceiverCfg(FALSE, 0),
       coalesce |-> [s |-> 1, r |-> 1], timeouts |-> TRUE, sink |-> GoodSink]
      : b \in {<<>>, <<File(SmallSize, TRUE, FALSE)>>} }

InitCancel ==
    /\ env \in CancelEnvs
    /\ snd = InitSnd /\ rcv = InitRcv
    /\ s2r = <<>> /\ r2s = <<>>
    /\ ctx = [s |-> FALSE, r |-> FALSE]
    /\ faults = NoFaults
    /\ gd = InitGuard

NextCancel ==
    \/ SndStep \/ SndRecv \/ SndPoll \/ SndTimeout
    \/ RcvStep \/ RcvRecv \/ RcvPoll \/ RcvTimeout
    \/ Cancel

SpecCancel == InitCancel /\ [][NextCancel]_vars

\* C6: once the context of Send or Receive is cancelled, the call writes no
\* further frame, and when it returns it returns the context's error.
C6_CancelStops ==
    /\ ctx.s => /\ ~snd.sentAfter
                /\ snd.state = "returned" => snd.result = "ctx"
    /\ ctx.r => /\ ~rcv.sentAfter
                /\ rcv.state = "returned" => rcv.result = "ctx"

----------------------------------------------------------------------------
(* The receive window *)

\* The ZRINIT of a receiver that is not this program: it advertises a window
\* and may lack CANFDX.
PeerZRINIT ==
    HexHdr("ZRINIT",
           WithZF0((IF env.peer.fdx THEN CANFDX ELSE 0) + CANOVIO) + env.peer.window)

\* What such a receiver may answer to the frame it has read: it accepts the
\* file at offset 0, acknowledges every ZCRCQ and ZCRCW subpacket at the
\* position it has reached, and now and then answers one with ZNAK instead.
PeerReplies(m) ==
    CASE m.k = "hdr" /\ m.t \in {"ZRQINIT", "ZEOF"} -> {<<PeerZRINIT>>}
      [] m.k = "hdr" /\ m.t = "ZFIN" -> {<<HexHdr("ZFIN", 0)>>}
      [] m.k = "info" -> {<<HexHdr("ZRPOS", 0)>>}
      [] m.k = "data" /\ m.t \in {"ZCRCQ", "ZCRCW"} ->
            {<<HexHdr("ZACK", m.pos + m.n)>>}
                \cup (IF faults.inject < MaxInject THEN {<<HexHdr("ZNAK", 0)>>} ELSE {})
      [] OTHER -> {<<>>}

PeerRecv ==
    /\ s2r # <<>>
    /\ \E out \in PeerReplies(Head(s2r)) :
         /\ r2s' = r2s \o out
         /\ faults' = [faults EXCEPT !.inject =
                            IF out # <<>> /\ out[1].t = "ZNAK" THEN @ + 1 ELSE @]
    /\ s2r' = Tail(s2r)
    /\ UNCHANGED <<env, snd, rcv, ctx, gd>>

\* One long file sent to a receiver with a window of SmallWindow octets.
WindowEnvs ==
    { [files |-> <<File(LargeSize, TRUE, e)>>, accept |-> <<Accept(0)>>,
       sCfg |-> SenderCfg(u, 0), rCfg |-> ReceiverCfg(u, 0),
       coalesce |-> [s |-> c, r |-> 1], timeouts |-> FALSE, sink |-> GoodSink,
       peer |-> [fdx |-> x, window |-> SmallWindow]]
      : e \in BOOLEAN, u \in BOOLEAN, c \in 1..MaxCoalesce, x \in BOOLEAN }

InitWindow ==
    /\ env \in WindowEnvs
    /\ snd = InitSnd /\ rcv = InitRcv
    /\ s2r = <<>> /\ r2s = <<>>
    /\ ctx = [s |-> FALSE, r |-> FALSE]
    /\ faults = NoFaults
    /\ gd = InitGuard

NextWindow == SndStep \/ SndRecv \/ PeerRecv

SpecWindow == InitWindow /\ [][NextWindow]_vars

\* C7: with a window W > 0 advertised, the sender never emits a data-bearing
\* subpacket while the octets it has sent beyond the last position confirmed
\* by a ZACK or ZRPOS number W or more.
C7_WindowRespected == ~snd.overWindow

----------------------------------------------------------------------------
(* Skipping a file *)

\* Batches of two files, each accepted at offset 0 or refused with ErrSkip,
\* sent with or without an attention sequence.
SkipEnvs ==
    { [files |-> <<a, b>>, accept |-> <<p, q>>,
       sCfg |-> SenderCfg(u, t), rCfg |-> ReceiverCfg(u, 0),
       coalesce |-> [s |-> c, r |-> c], timeouts |-> FALSE, sink |-> GoodSink]
      : a \in FileKinds, b \in FileKinds, p \in {Accept(0), Skip}, q \in {Accept(0), Skip},
        u \in BOOLEAN, t \in {0, 2}, c \in 1..MaxCoalesce }

InitSkip ==
    /\ env \in SkipEnvs
    /\ snd = InitSnd /\ rcv = InitRcv
    /\ s2r = <<>> /\ r2s = <<>>
    /\ ctx = [s |-> FALSE, r |-> FALSE]
    /\ faults = NoFaults
    /\ gd = InitGuard

SpecSkip == InitSkip /\ [][NextLoop]_vars /\ FairLoop

\* The receiver is about to ask AcceptFile about a file the handler refuses.
AboutToSkip ==
    rcv.state = "srxFileAccept" /\ AcceptPolicy(rcv.curInfo.f).kind = "skip"

\* AcceptFile has returned ErrSkip for file i.
Skipped(i) ==
    \E k \in 1..Len(rcv.completed) : rcv.completed[k] = [file |-> i, bytes |-> 0, err |-> "ErrSkip"]

\* Both handlers have the whole batch: a refused file is reported with ErrSkip
\* on both sides and has no sink, every other file arrived intact and is
\* reported with a nil error, in NextFile order.
SkipBatchDone ==
    LET n    == Len(env.files)
        kept == {i \in 1..n : env.accept[i].kind = "accept"}
    IN  /\ rcv.accepted = [i \in 1..n |-> i]
        /\ Len(rcv.completed) = n /\ Len(snd.completed) = n
        /\ \A i \in 1..n :
              /\ snd.completed[i].file = i /\ rcv.completed[i].file = i
              /\ snd.completed[i].err = (IF i \in kept THEN "nil" ELSE "ErrSkip")
              /\ rcv.completed[i].err = (IF i \in kept THEN "nil" ELSE "ErrSkip")
              /\ i \in kept => /\ snd.completed[i].bytes = env.files[i].size
                                /\ rcv.completed[i].bytes = env.files[i].size
        /\ Len(rcv.sinks) = Cardinality(kept)
        /\ \A k \in 1..Len(rcv.sinks) :
              /\ rcv.sinks[k].f \in kept
              /\ rcv.sinks[k] = IntactSink(rcv.sinks[k].f, 0, env.files[rcv.sinks[k].f].size)
              /\ \A j \in 1..Len(rcv.sinks) : j < k => rcv.sinks[j].f < rcv.sinks[k].f

\* C8: when AcceptFile returns ErrSkip the receiver answers ZSKIP, reports
\* FileCompleted with ErrSkip, opens no sink and waits for the next file; no
\* octet of a refused file is ever written; and the session goes on to its end:
\* the sender reports ErrSkip for the file, the other file transfers normally
\* and both calls return nil.
C8_SkipFile ==
    /\ [][AboutToSkip /\ rcv' # rcv =>
            /\ r2s' = Append(r2s, HexHdr("ZSKIP", 0))
            /\ rcv'.completed = Append(rcv.completed,
                                       [file |-> rcv.curInfo.f, bytes |-> 0, err |-> "ErrSkip"])
            /\ rcv'.sinks = rcv.sinks
            /\ rcv'.state = "srxFileWait" /\ rcv'.mode = "hdr"]_vars
    /\ [](\A k \in 1..Len(rcv.sinks) : env.accept[rcv.sinks[k].f].kind # "skip")
    /\ \A i \in {1, 2} : Skipped(i) ~> (BothReturnedNil /\ SkipBatchDone)

\* A refused first file, a second file of SmallSize octets delivered intact, and
\* both calls back with nil.
C8_Witness ==
    /\ env.accept[1].kind = "skip" /\ env.accept[2].kind = "accept"
    /\ env.files[2].size = SmallSize
    /\ Skipped(1) /\ BothReturnedNil /\ SkipBatchDone

----------------------------------------------------------------------------
(* Readers that cannot seek *)

\* A first file whose reader is a plain io.Reader, alone or followed by a
\* seekable file, accepted at offset 0, over a transport that may damage one
\* data subpacket.
NonSeekEnvs ==
    { [files |-> b, accept |-> [i \in 1..Len(b) |-> Accept(0)],
       sCfg |-> SenderCfg(u, 0), rCfg |-> ReceiverCfg(u, 0),
       coalesce |-> [s |-> 1, r |-> 1], timeouts |-> FALSE, sink |-> GoodSink]
      : b \in { <<File(n, FALSE, TRUE)>> : n \in {SmallSize, LargeSize} }
              \cup { <<File(SmallSize, FALSE, TRUE), File(SmallSize, TRUE, FALSE)>> },
        u \in BOOLEAN }

InitNonSeek ==
    /\ env \in NonSeekEnvs
    /\ snd = InitSnd /\ rcv = InitRcv
    /\ s2r = <<>> /\ r2s = <<>>
    /\ ctx = [s |-> FALSE, r |-> FALSE]
    /\ faults = NoFaults
    /\ gd = InitGuard

SpecNonSeek == InitNonSeek /\ [][NextCorrupt]_vars /\ FairLoop

\* C9: a ZRPOS with a nonzero offset or a ZCRC that the reader of the current
\* file cannot serve, because it does not support seeking, never makes Send
\* fail (unseekable: Send returned the seek error for such a request).
C9_NonSeekableNeverFails == ~snd.unseekable

----------------------------------------------------------------------------
(* Resuming a file whose reader cannot seek *)

\* A file with a plain io.Reader followed by a seekable one; the handler
\* resumes the first at an offset inside the file or past its end, and takes
\* the second at offset 0 or resumes it inside.
ResumeEnvs ==
    { [files |-> <<File(SmallSize, FALSE, TRUE), File(SmallSize, TRUE, FALSE)>>,
       accept |-> <<Accept(o), Accept(p)>>,
       sCfg |-> SenderCfg(u, 0), rCfg |-> ReceiverCfg(u, 0),
       coalesce |-> [s |-> c, r |-> c], timeouts |-> FALSE, sink |-> GoodSink]
      : o \in {ResumeAt, PastEnd}, p \in {0, ResumeAt}, u \in BOOLEAN, c \in 1..MaxCoalesce }

InitResume ==
    /\ env \in ResumeEnvs
    /\ snd = InitSnd /\ rcv = InitRcv
    /\ s2r = <<>> /\ r2s = <<>>
    /\ ctx = [s |-> FALSE, r |-> FALSE]
    /\ faults = NoFaults
    /\ gd = InitGuard

SpecResume == InitResume /\ [][NextLoop]_vars /\ FairLoop

\* The receiver has answered the ZFILE of file 1, whose reader cannot seek,
\* with a ZRPOS at a nonzero offset.
ResumeAsked ==
    /\ ~env.files[1].seekable /\ env.accept[1].off > 0
    /\ Len(rcv.accepted) >= 1

\* File 1 was skipped on both sides with nothing written, file 2 arrived
\* intact from its offset on, and both calls are back with nil.
ResumeSkipped ==
    /\ BothReturnedNil
    /\ rcv.accepted = <<1, 2>>
    /\ Len(snd.completed) = 2 /\ Len(rcv.completed) = 2
    /\ snd.completed[1].file = 1 /\ snd.completed[1].err = "not seekable"
    /\ rcv.completed[1].file = 1 /\ rcv.completed[1].err = "ErrSkip"
    /\ snd.completed[2].file = 2 /\ snd.completed[2].err = "nil"
    /\ rcv.completed[2] = [file |-> 2, bytes |-> env.files[2].size, err |-> "nil"]
    /\ rcv.sinks = <<[f |-> 1, off |-> env.accept[1].off, segs |-> <<>>],
                     IntactSink(2, env.accept[2].off, env.files[2].size)>>

\* C10: when the receiver answers ZFILE with ZRPOS at a nonzero offset and the
\* reader cannot seek, the sender answers ZSKIP and reports "not seekable", the
\* receiver writes nothing, reports ErrSkip and receives the next file normally.
C10_NonSeekableResume ==
    /\ [](ResumeAsked /\ Len(rcv.sinks) >= 1 => rcv.sinks[1].segs = <<>>)
    /\ ResumeAsked ~> ResumeSkipped

----------------------------------------------------------------------------
(* Resuming at the offset AcceptFile returned *)

\* One file with a seekable reader, alone or followed by a second one; the
\* handler takes each at offset 0, inside the file, or at an offset that lies
\* past the end of a short file.
OffsetEnvs ==
    { [files |-> b, accept |-> [i \in 1..Len(b) |-> Accept(IF i = 1 THEN o ELSE p)],
       sCfg |-> SenderCfg(u, 0), rCfg |-> ReceiverCfg(u, 0),
       coalesce |-> [s |-> c, r |-> c], timeouts |-> FALSE, sink |-> GoodSink]
      : b \in {<<File(n, TRUE, e)>> : n \in {SmallSize, LargeSize}, e \in BOOLEAN}
              \cup {<<File(SmallSize, TRUE, FALSE), File(SmallSize, TRUE, TRUE)>>},
        o \in {0, ResumeAt, PastEnd}, p \in {0, ResumeAt},
        u \in BOOLEAN, c \in 1..MaxCoalesce }

InitOffset ==
    /\ env \in OffsetEnvs
    /\ snd = InitSnd /\ rcv = InitRcv
    /\ s2r = <<>> /\ r2s = <<>>
    /\ ctx = [s |-> FALSE, r |-> FALSE]
    /\ faults = NoFaults
    /\ gd = InitGuard

SpecOffset == InitOffset /\ [][NextLoop]_vars /\ FairLoop

\* The receiver asks AcceptFile about a file the handler accepts.
AboutToAccept ==
    rcv.state = "srxFileAccept" /\ AcceptPolicy(rcv.curInfo.f).kind = "accept"

\* C11: for every offset k returned by AcceptFile the receiver's first ZRPOS
\* for the file carries k, the first ZDATA header the sender emits for the file
\* carries the position of that ZRPOS, and a file reported complete has in its
\* sink exactly the file's octets from k to the end and nothing before k.
C11_ResumeAtOffset ==
    /\ [][AboutToAccept /\ rcv' # rcv =>
            r2s' = Append(r2s, HexHdr("ZRPOS", AcceptPolicy(rcv.curInfo.f).off))]_vars
    /\ [](snd.firstZdata >= 0 => snd.firstZdata = env.accept[snd.curOffer].off)
    /\ [](\A i \in 1..Len(rcv.completed) :
            rcv.completed[i].err = "nil" =>
                rcv.sinks[i] = IntactSink(i, env.accept[i].off, env.files[i].size))

----------------------------------------------------------------------------
(* A peer that never sends *)

\* The sender's side of the transport is silent: nobody ever calls Send.
Absent == SndReturn(InitSnd, "absent")

\* Receive over a deadline-capable transport, with every MaxRetries from 1 to
\* MaxRetriesTop.
SilentEnvs ==
    { [files |-> <<>>, accept |-> <<>>,
       sCfg |-> SenderCfg(u, 0),
       rCfg |-> [ReceiverCfg(u, w) EXCEPT !.MaxRetries = n],
       coalesce |-> [s |-> 1, r |-> 1], timeouts |-> TRUE, sink |-> GoodSink]
      : u \in BOOLEAN, w \in {0, SmallWindow}, n \in 1..MaxRetriesTop }

InitSilent ==
    /\ env \in SilentEnvs
    /\ snd = Absent /\ rcv = InitRcv
    /\ s2r = <<>> /\ r2s = <<>>
    /\ ctx = [s |-> FALSE, r |-> FALSE]
    /\ faults = NoFaults
    /\ gd = InitGuard

NextSilent == RcvStep \/ RcvTimeout

\* Receive keeps running, and a blocked read does run into its deadline.
SpecSilent == InitSilent /\ [][NextSilent]_vars /\ WF_vars(RcvStep) /\ WF_vars(RcvTimeout)

\* The failed header read on which Receive gives up.
LastRead == Min2(env.rCfg.MaxRetries, maxConsecutiveErr)

\* What Receive has written: one ZRINIT, then nothing but ZNAK headers.
OnlyZnaksAfterZRINIT ==
    /\ r2s # <<>> => r2s[1] = ZRINITHdr
    /\ \A i \in 2..Len(r2s) : r2s[i] = HexHdr("ZNAK", 0)

\* C12: facing a silent peer, with every read failing on its deadline, Receive
\* terminates with an error: it sends ZRINIT once and a ZNAK after each failed
\* header read but the last, and returns on failed read number MaxRetries when
\* MaxRetries <= 15, or with the consecutive-errors ("not a ZMODEM peer") error
\* on failed read number 15 when MaxRetries > 15.
C12_SilentPeer ==
    /\ [](OnlyZnaksAfterZRINIT)
    /\ [](rcv.state = "srxFileWait" => Len(r2s) = 1 + rcv.consecutiveErr)
    /\ [](rcv.state = "returned" =>
            /\ rcv.consecutiveErr = LastRead
            /\ Len(r2s) = LastRead
            /\ rcv.result \in {"max retries", "consecutive errors"}
            /\ env.rCfg.MaxRetries > maxConsecutiveErr => rcv.result = "consecutive errors")
    /\ <>(rcv.state = "returned")

\* Receive with MaxRetries = 10 (the default) has returned after ten failed
\* reads, having written ZRINIT and nine ZNAKs.
C12_Witness ==
    /\ env.rCfg.MaxRetries = 10 /\ rcv.state = "returned" /\ rcv.result = "max retries"
    /\ rcv.consecutiveErr = 10 /\ Len(r2s) = 10

----------------------------------------------------------------------------
(* Files larger than Config.MaxFileSize *)

\* Two Sessions joined by a reliable transport, neither call cancelled, no
\* fault so far: the start of a session for the configurations envs.
InitIn(envs) ==
    /\ env \in envs
    /\ snd = InitSnd /\ rcv = InitRcv
    /\ s2r = <<>> /\ r2s = <<>>
    /\ ctx = [s |-> FALSE, r |-> FALSE]
    /\ faults = NoFaults
    /\ gd = InitGuard

\* Batches of one or two files received with MaxFileSize = SmallSize: the
\* long file is over the limit, the short ones and the empty one are not.
LimitEnvs ==
    { [files |-> b, accept |-> [i \in 1..Len(b) |-> Accept(0)],
       sCfg |-> SenderCfg(u, 0),
       rCfg |-> [ReceiverCfg(u, 0) EXCEPT !.MaxFileSize = SmallSize],
       coalesce |-> [s |-> c, r |-> c], timeouts |-> FALSE, sink |-> GoodSink]
      : b \in {<<a>> : a \in FileKinds} \cup {<<a, b>> : a, b \in FileKinds},
        u \in BOOLEAN, c \in 1..MaxCoalesce }

SpecLimit == InitIn(LimitEnvs) /\ [][NextLoop]_vars /\ FairLoop

\* File i of the batch is larger than the receiver's limit.
Oversize(i) == env.rCfg.MaxFileSize > 0 /\ env.files[i].size > env.rCfg.MaxFileSize

\* The receiver reads the metadata subpacket of a ZFILE that announces a file
\* over the limit.
ReadsOversizeZFILE ==
    /\ rcv.state = "srxFileWait" /\ rcv.mode = "info" /\ rcv' # rcv
    /\ s2r # <<>> /\ Head(s2r).k = "info" /\ Head(s2r).pos > env.rCfg.MaxFileSize

\* The session is over: the sender reported every file, ErrSkip for those over
\* the limit and nil for the others; the receiver was asked about, and has
\* intact and reported with nil, exactly the others, in NextFile order.
LimitBatchDone ==
    LET n    == Len(env.files)
        kept == {i \in 1..n : ~Oversize(i)}
    IN  /\ Len(snd.completed) = n
        /\ \A i \in 1..n :
              /\ snd.completed[i].file = i
              /\ snd.completed[i].err = (IF i \in kept THEN "nil" ELSE "ErrSkip")
              /\ i \in kept => snd.completed[i].bytes = env.files[i].size
        /\ Len(rcv.accepted) = Cardinality(kept)
        /\ Len(rcv.completed) = Cardinality(kept)
        /\ Len(rcv.sinks) = Cardinality(kept)
        /\ \A k \in 1..Len(rcv.sinks) :
              LET i == rcv.sinks[k].f
              IN  /\ i \in kept /\ rcv.accepted[k] = i
                  /\ rcv.sinks[k] = IntactSink(i, 0, env.files[i].size)
                  /\ rcv.completed[k] = [file |-> i, bytes |-> env.files[i].size, err |-> "nil"]
                  /\ \A j \in 1..Len(rcv.sinks) : j < k => rcv.sinks[j].f < i

\* C13: with MaxFileSize > 0, a ZFILE announcing a larger size is answered
\* with ZSKIP; AcceptFile is never called for that file, nothing is written
\* for it and the receiver stays in FileWait for the next ZFILE; the sender
\* reports ErrSkip for it and the other files of the batch are transferred.
C13_MaxFileSize ==
    /\ [][ReadsOversizeZFILE =>
            /\ r2s' = Append(r2s, HexHdr("ZSKIP", 0))
            /\ rcv'.accepted = rcv.accepted /\ rcv'.sinks = rcv.sinks
            /\ rcv'.completed = rcv.completed
            /\ rcv'.state = "srxFileWait" /\ rcv'.mode = "hdr"]_vars
    /\ [](\A k \in 1..Len(rcv.accepted) : ~Oversize(rcv.accepted[k]))
    /\ [](\A k \in 1..Len(rcv.sinks) : ~Oversize(rcv.sinks[k].f))
    /\ <>(BothReturnedNil /\ LimitBatchDone)

\* A long file over the limit followed by a short one: the first skipped, the
\* second delivered, both calls back with nil.
C13_Witness ==
    /\ Len(env.files) = 2 /\ Oversize(1) /\ ~Oversize(2) /\ env.files[2].size = SmallSize
    /\ BothReturnedNil /\ LimitBatchDone
    /\ snd.completed[1].err = "ErrSkip" /\ rcv.accepted = <<2>>

----------------------------------------------------------------------------
(* Remote commands *)

\* A ZCOMMAND frame as a peer may send it: a hex or binary header with some
\* position, alone or followed by the subpacket that carries the command.
CommandFrames ==
    LET hdrs == {HexHdr("ZCOMMAND", p) : p \in {0, 1}}
                  \cup {BinHdr("ZCOMMAND", p, c) : p \in {0, 1}, c \in BOOLEAN}
        cmd  == SubPkt("cmd", 0, 0, PartialStored, "ZCRCW", env.sCfg.Use32BitCRC)
    IN  {<<h>> : h \in hdrs} \cup {<<h, cmd>> : h \in hdrs}

\* The peer sends a ZCOMMAND frame while the receiver waits in FileWait.
InjectCommand ==
    /\ faults.inject < MaxInject
    /\ rcv.state = "srxFileWait" /\ rcv.mode = "hdr" /\ rcv.rbuf = 0
    /\ \E fr \in CommandFrames : s2r' = fr \o s2r
    /\ faults' = [faults EXCEPT !.inject = @ + 1]
    /\ UNCHANGED <<env, snd, rcv, r2s, ctx, gd>>

\* An empty batch or one short file, received with or without a size limit.
CommandEnvs ==
    { [files |-> b, accept |-> [i \in 1..Len(b) |-> Accept(0)],
       sCfg |-> SenderCfg(u, 0),
       rCfg |-> [ReceiverCfg(u, 0) EXCEPT !.MaxFileSize = l],
       coalesce |-> [s |-> 1, r |-> 1], timeouts |-> FALSE, sink |-> GoodSink]
      : b \in {<<>>, <<File(SmallSize, TRUE, FALSE)>>}, u \in BOOLEAN, l \in {0, SmallSize} }

NextCommand == SndStep \/ SndRecv \/ RcvStep \/ RcvRecv \/ InjectCommand

SpecCommand == InitIn(CommandEnvs) /\ [][NextCommand]_vars /\ FairLoop

\* The receiver, waiting for a header in FileWait, reads a ZCOMMAND header.
ReadsZCOMMAND ==
    /\ rcv.state = "srxFileWait" /\ rcv.mode = "hdr"
    /\ s2r # <<>> /\ Head(s2r).k = "hdr" /\ Head(s2r).ok /\ Head(s2r).t = "ZCOMMAND"
    /\ s2r' = Tail(s2r)

\* C14: every ZCOMMAND header read in FileWait is answered with exactly one
\* ZCOMPL hex header with position 0; no handler callback is made, the receiver
\* stays in FileWait and nothing of its file state changes.
C14_CommandRejected ==
    [][ReadsZCOMMAND =>
        /\ r2s' = Append(r2s, HexHdr("ZCOMPL", 0))
        /\ rcv' = [rcv EXCEPT !.consecutiveErr = 0, !.garbage = 0, !.rbuf = rcv'.rbuf]]_vars

\* The receiver has answered a ZCOMMAND and is still waiting in FileWait, with
\* no file accepted and no callback made.
C14_Witness ==
    /\ rcv.state = "srxFileWait" /\ rcv.mode = "hdr"
    /\ r2s # <<>> /\ r2s[Len(r2s)] = HexHdr("ZCOMPL", 0)
    /\ rcv.accepted = <<>> /\ rcv.completed = <<>>

----------------------------------------------------------------------------
(* The read deadline at the end of a call *)

\* C15: whenever an admitted Send or Receive returns, by whatever path, the
\* read deadline of the transport has been cleared before the Session becomes
\* available to the next call: a Session that is not active has no deadline
\* armed, and the deadline is already gone in the step that releases it.
C15_DeadlineCleared ==
    /\ [](~gd.active => ~gd.deadline)
    /\ [][gd.active /\ ~gd'.active => ~gd.deadline /\ ~gd'.deadline]_vars

\* A call that armed the read deadline has ended on a cancelled context and
\* has released the Session.
C15_Witness ==
    /\ gd.how = "ctx" /\ gd.writes > 0 /\ ~gd.active /\ ~gd.deadline
    /\ \E c \in Calls : gd.calls[c].result = "returned"

----------------------------------------------------------------------------
(* The files-remaining hint *)

\* C16: in a batch, the FileInfo values the receiver obtains for successive
\* files carry FilesRemaining hints that decrease from file to file.
C16_FilesRemainingDecreases ==
    \A i \in 1..Len(rcv.hints) : \A j \in 1..Len(rcv.hints) :
        i < j => rcv.hints[j] < rcv.hints[i]

----------------------------------------------------------------------------
(* End-types of the data subpackets *)

\* A short or a long file sent to a receiver that may or may not advertise
\* CANFDX, with or without a window.
EndTypeEnvs ==
    { [files |-> <<File(n, TRUE, e)>>, accept |-> <<Accept(0)>>,
       sCfg |-> SenderCfg(u, 0), rCfg |-> ReceiverCfg(u, 0),
       coalesce |-> [s |-> c, r |-> 1], timeouts |-> FALSE, sink |-> GoodSink,
       peer |-> [fdx |-> x, window |-> w]]
      : n \in {SmallSize, LargeSize}, e \in BOOLEAN, u \in BOOLEAN,
        c \in 1..MaxCoalesce, x \in BOOLEAN, w \in {0, SmallWindow} }

SpecEndType == InitIn(EndTypeEnvs) /\ [][NextWindow]_vars

\* The frames a step of the sender appends to the forward channel.
NewFrames ==
    IF Len(s2r') > Len(s2r) THEN SubSeq(s2r', Len(s2r) + 1, Len(s2r')) ELSE <<>>

\* The subpacket carries the last octets of its file together with io.EOF.
AtEOF(m) == Offer(m.f).eofWithData /\ m.pos + m.n = Offer(m.f).size

----------------------------------------------------------------------------
(* The octet codec: escape table, transportWriter, transportReader, CRC and *)
(* data subpackets, computed octet by octet.  An octet is a number 0..255,  *)
(* the wire a sequence of octets.                                           *)

ZPAD == 42
ZDLE == 24
CAN == 24
XON == 17
XOFF == 19
ZBIN == 65
ZHEX == 66
ZBIN32 == 67
ZCRCE == 104
ZCRCG == 105
ZCRCQ == 106
ZCRCW == 107
ZRUB0 == 108
ZRUB1 == 109

EndTypes == {ZCRCE, ZCRCG, ZCRCQ, ZCRCW}

\* The bitwise exclusive or of two naturals (Go's ^ on unsigned values).
RECURSIVE Xor(_, _)
Xor(a, b) ==
    IF a = 0 THEN b
    ELSE IF b = 0 THEN a
    ELSE ((a + b) % 2) + 2 * Xor(a \div 2, b \div 2)

\* CRC-16/XMODEM, polynomial 0x1021, initial value 0, in the form that needs
\* crc16Finalize: one octet is shifted in at the low end, most significant
\* bit first.  (The tests nx >= 0 are always true: they make TLC finish one
\* step before it starts the next.)
RECURSIVE crc16Bits(_, _, _)
crc16Bits(crc, b, k) ==
    IF k = 0 THEN crc
    ELSE LET sh == ((crc * 2) % 65536) + (b \div 128)
             nx == IF crc \div 32768 = 1 THEN Xor(sh, 4129) ELSE sh
         IN IF nx >= 0 THEN crc16Bits(nx, (b * 2) % 256, k - 1) ELSE 0

RECURSIVE crc16Update(_, _)
crc16Update(crc, data) ==
    IF data = <<>> THEN crc
    ELSE LET nx == crc16Bits(crc, Head(data), 8)
         IN IF nx >= 0 THEN crc16Update(nx, Tail(data)) ELSE 0

\* Finalisation: two zero octets are shifted through.
crc16Finalize(crc) == crc16Update(crc, <<0, 0>>)

\* CRC-32/IEEE, reflected polynomial 0xEDB88320.  A value is its four octets,
\* least significant first, which is also the order they are written in.
Crc32Zero == <<0, 0, 0, 0>>
Crc32Poly == <<32, 131, 184, 237>>
Not32(c) == <<255 - c[1], 255 - c[2], 255 - c[3], 255 - c[4]>>

RECURSIVE crc32Bits(_, _)
crc32Bits(c, k) ==
    IF k = 0 THEN c
    ELSE LET sh == <<(c[1] \div 2) + (c[2] % 2) * 128, (c[2] \div 2) + (c[3] % 2) * 128,
                     (c[3] \div 2) + (c[4] % 2) * 128, c[4] \div 2>>
             nx == IF c[1] % 2 = 1
                   THEN <<Xor(sh[1], Crc32Poly[1]), Xor(sh[2], Crc32Poly[2]),
                          Xor(sh[3], Crc32Poly[3]), Xor(sh[4], Crc32Poly[4])>>
                   ELSE sh
         IN IF nx[1] >= 0 THEN crc32Bits(nx, k - 1) ELSE Crc32Zero

RECURSIVE crc32Raw(_, _)
crc32Raw(c, data) ==
    IF data = <<>> THEN c
    ELSE LET c0 == <<Xor(c[1], Head(data)), c[2], c[3], c[4]>>
             nx == crc32Bits(c0, 8)
         IN IF nx[1] >= 0 THEN crc32Raw(nx, Tail(data)) ELSE Crc32Zero

\* Incremental update of a finished CRC-32: the initial and the final
\* inversion are applied inside, so crc32Update(0, data) is the CRC of data.
crc32Update(crc, data) ==
    LET c0 == Not32(crc)
        r  == crc32Raw(c0, data)
    IN Not32(r)

\* EscapeMode, and the three classes of the escape table.
EscapeModes == {"EscapeStandard", "EscapeAll", "EscapeMinimal"}

\* buildEscapeTable(escapeAll)[b]: ZDLE, DLE, XON, XOFF and their high-bit
\* variants are always escaped, CR and 0x8d after '@'; escapeAll adds every
\* octet 0x00..0x1f and 0x80..0x9f not classified yet.
buildEscapeTable(escapeAll, b) ==
    CASE b \in {ZDLE, 16, XON, XOFF, 144, 145, 147, 152} -> "escMust"
      [] b \in {13, 141} -> "escIfAtCR"
      [] escapeAll /\ (b % 128) < 32 -> "escMust"
      [] OTHER -> "escSend"

\* The table of EscapeMinimal (DirZap): only ZDLE is escaped.
buildEscapeTableMinimal(b) == IF b = ZDLE THEN "escMust" ELSE "escSend"

tableOf(mode, b) ==
    IF mode = "EscapeMinimal" THEN buildEscapeTableMinimal(b)
    ELSE buildEscapeTable(mode = "EscapeAll", b)

escapeRequired(mode, b, lastSent) ==
    CASE tableOf(mode, b) = "escMust" -> TRUE
      [] tableOf(mode, b) = "escIfAtCR" -> lastSent \in {64, 192}
      [] OTHER -> FALSE

escapeByte(b) == <<ZDLE, Xor(b, 64)>>

\* A transportWriter: the octets written so far and lastSent.
newTransportWriter(mode) == [out |-> <<>>, lastSent |-> 0, mode |-> mode]

writeByte(tw, b) == [tw EXCEPT !.out = Append(@, b), !.lastSent = b]

writeEscapedByte(tw, b) ==
    IF escapeRequired(tw.mode, b, tw.lastSent)
    THEN [tw EXCEPT !.out = @ \o escapeByte(b), !.lastSent = escapeByte(b)[2]]
    ELSE [tw EXCEPT !.out = Append(@, b), !.lastSent = b]

RECURSIVE writeEscaped(_, _)
writeEscaped(tw, data) ==
    IF data = <<>> THEN tw
    ELSE LET nx == writeEscapedByte(tw, Head(data))
         IN writeEscaped(nx, Tail(data))

\* CRC of data and end type, as the octets written: CRC-16 high octet first,
\* CRC-32 low octet first.
SubCrc(useCRC32, data, endType) ==
    IF useCRC32
    THEN LET c1 == crc32Update(Crc32Zero, data)
             c2 == crc32Update(c1, <<endType>>)
         IN c2
    ELSE LET c1 == crc16Update(0, data)
             c2 == crc16Update(c1, <<endType>>)
             c3 == crc16Finalize(c2)
         IN <<c3 \div 256, c3 % 256>>

\* sendSubpacket: the escaped data, ZDLE and the end type unescaped, the CRC
\* escaped, and XON after ZCRCW.
sendSubpacket(tw, useCRC32, data, endType) ==
    LET crc == SubCrc(useCRC32, data, endType)
        t1 == writeEscaped(tw, data)
        t2 == writeByte(t1, ZDLE)
        t3 == writeByte(t2, endType)
        t4 == writeEscaped(t3, crc)
    IN IF endType = ZCRCW THEN writeByte(t4, XON) ELSE t4

\* A transportReader: the octets not read yet, canCount and garbageCount.
newTransportReader(octets) == [in |-> octets, canCount |-> 0, garbageCount |-> 0]

\* readByteStrip: the next octet that is not XON or XOFF, with or without
\* the high bit; ok is FALSE when the transport ends first.
RECURSIVE readByteStrip(_)
readByteStrip(tr) ==
    LET nx == [tr EXCEPT !.in = Tail(@)]
    IN  IF tr.in = <<>> THEN [ok |-> FALSE, b |-> 0, tr |-> tr]
        ELSE IF (Head(tr.in) % 128) \in {XON, XOFF}
             THEN readByteStrip(nx)
             ELSE [ok |-> TRUE, b |-> Head(tr.in), tr |-> nx]

\* zdlRead and zdlEscape: one decoded octet b, or a frame end fe # 0, or an
\* error.
ZdlErr(e, tr) == [b |-> 0, fe |-> 0, err |-> e, tr |-> tr]
ZdlGot(b, fe, tr) == [b |-> b, fe |-> fe, err |-> "nil", tr |-> [tr EXCEPT !.canCount = 0]]

RECURSIVE zdlRead(_)
zdlEscape(tr0) ==
    LET Esc(rd) ==
          LET c  == rd.b
              nx == [rd.tr EXCEPT !.canCount = @ + 1]
          IN  CASE ~rd.ok -> ZdlErr("EOF", rd.tr)
                [] c \in EndTypes -> ZdlGot(0, c, rd.tr)
                [] c = ZRUB0 -> ZdlGot(127, 0, rd.tr)
                [] c = ZRUB1 -> ZdlGot(255, 0, rd.tr)
                [] c >= 64 -> ZdlGot(Xor(c, 64), 0, rd.tr)
                [] c = CAN /\ nx.canCount >= 5 -> ZdlErr("errAbortReceived", nx)
                [] OTHER -> zdlRead(IF c = CAN THEN nx ELSE rd.tr)
    IN Esc(readByteStrip(tr0))

zdlRead(tr0) ==
    LET Got(rd) ==
          LET nx == [rd.tr EXCEPT !.canCount = @ + 1]
          IN  CASE ~rd.ok -> ZdlErr("EOF", rd.tr)
                [] rd.b = ZDLE /\ nx.canCount >= 5 -> ZdlErr("errAbortReceived", nx)
                [] rd.b = ZDLE -> zdlEscape(nx)
                [] OTHER -> ZdlGot(rd.b, 0, rd.tr)
    IN Got(readByteStrip(tr0))

\* The CRC octets after a frame end: n decoded octets, none a frame end.
RECURSIVE readCRC(_, _, _)
readCRC(tr, n, acc) ==
    LET Step(z) ==
          CASE z.err # "nil" -> [err |-> "subpacket CRC read", crc |-> acc, tr |-> z.tr]
            [] z.fe # 0 -> [err |-> "unexpected frame end", crc |-> acc, tr |-> z.tr]
            [] OTHER -> readCRC(z.tr, n - 1, Append(acc, z.b))
    IN  IF n = 0 THEN [err |-> "nil", crc |-> acc, tr |-> tr]
        ELSE Step(zdlRead(tr))

SubRes(data, endType, err, tr) ==
    [data |-> IF err = "nil" THEN data ELSE <<>>,
     endType |-> IF err = "nil" THEN endType ELSE 0, err |-> err, tr |-> tr]

\* The CRC check at the frame end fe: n CRC octets are read and compared
\* with the CRC of data and fe.
SubEnd(tr, useCRC32, data, fe) ==
    LET n == IF useCRC32 THEN 4 ELSE 2
        Check(c, crc) ==
          CASE c.err # "nil" -> SubRes(data, 0, c.err, c.tr)
            [] \E i \in 1..n : crc[i] # c.crc[i] ->
                  SubRes(data, 0, IF useCRC32 THEN "subpacket CRC-32 error"
                                  ELSE "subpacket CRC-16 error", c.tr)
            [] OTHER -> SubRes(data, fe, "nil", c.tr)
    IN Check(readCRC(tr, n, <<>>), SubCrc(useCRC32, data, fe))

RECURSIVE recvSubpacketCRC16(_, _, _)
recvSubpacketCRC16(tr, data, maxLen) ==
    LET Step(z) ==
          CASE z.err # "nil" -> SubRes(data, 0, "subpacket read", z.tr)
            [] z.fe # 0 -> SubEnd(z.tr, FALSE, data, z.fe)
            [] Len(data) >= maxLen ->
                  SubRes(data, 0, "subpacket exceeds max length", z.tr)
            [] OTHER -> recvSubpacketCRC16(z.tr, Append(data, z.b), maxLen)
    IN Step(zdlRead(tr))

RECURSIVE recvSubpacketCRC32(_, _, _)
recvSubpacketCRC32(tr, data, maxLen) ==
    LET Step(z) ==
          CASE z.err # "nil" -> SubRes(data, 0, "subpacket read", z.tr)
            [] z.fe # 0 -> SubEnd(z.tr, TRUE, data, z.fe)
            [] Len(data) >= maxLen ->
                  SubRes(data, 0, "subpacket exceeds max length", z.tr)
            [] OTHER -> recvSubpacketCRC32(z.tr, Append(data, z.b), maxLen)
    IN Step(zdlRead(tr))

recvSubpacket(tr, useCRC32, maxLen) ==
    IF useCRC32 THEN recvSubpacketCRC32(tr, <<>>, maxLen)
    ELSE recvSubpacketCRC16(tr, <<>>, maxLen)

----------------------------------------------------------------------------
(* Subpackets written by sendSubpacket and read back by recvSubpacket, as   *)
(* the subpacket round-trip tests do, for every escape mode and CRC mode.   *)

MaxPayload == 2
MaxSubs == 2
SubMaxLen == 1024

\* Octets a payload is made of: NUL, CR, XON, XOFF, ZDLE, '@', ZDLEE, an
\* end-type octet, DEL, XOFF with the high bit, 0xff.
PayloadOctets == {0, 13, XON, XOFF, ZDLE, 64, 88, ZCRCE, 127, 147, 255}

Payloads == UNION {[1..n -> PayloadOctets] : n \in 0..MaxPayload}

\* env: the codec configuration and the payload of the run; snd: the
\* transportWriter and the subpackets sent; s2r: the octets written and not
\* read yet; rcv: the reader's canCount and what recvSubpacket returned.
InitSubpacket ==
    /\ env \in [mode : EscapeModes, useCRC32 : BOOLEAN, P : Payloads]
    /\ snd = [tw |-> newTransportWriter(env.mode), sent |-> <<>>]
    /\ rcv = [canCount |-> 0, got |-> <<>>]
    /\ s2r = <<>> /\ r2s = <<>>
    /\ ctx = [s |-> FALSE, r |-> FALSE]
    /\ faults = NoFaults
    /\ gd = InitGuard

\* sendSubpacket(P, E), flushed to the transport.
SubSend ==
    /\ Len(snd.sent) < MaxSubs
    /\ \E E \in EndTypes :
         LET tw == sendSubpacket(snd.tw, env.useCRC32, env.P, E)
         IN /\ s2r' = s2r \o tw.out
            /\ snd' = [tw |-> [tw EXCEPT !.out = <<>>],
                       sent |-> Append(snd.sent, [data |-> env.P, endType |-> E])]
    /\ UNCHANGED <<env, rcv, r2s, ctx, faults, gd>>

\* recvSubpacket(SubMaxLen) on what the transport holds.
SubRecv ==
    /\ Len(rcv.got) < Len(snd.sent)
    /\ LET tr == [newTransportReader(s2r) EXCEPT !.canCount = rcv.canCount]
           r  == recvSubpacket(tr, env.useCRC32, SubMaxLen)
       IN /\ s2r' = r.tr.in
          /\ rcv' = [canCount |-> r.tr.canCount,
                     got |-> Append(rcv.got, [data |-> r.data, endType |-> r.endType,
                                              err |-> r.err])]
    /\ UNCHANGED <<env, snd, r2s, ctx, faults, gd>>

NextSubpacket == SubSend \/ SubRecv

SpecSubpacket == InitSubpacket /\ [][NextSubpacket]_vars

----------------------------------------------------------------------------
(* Frame headers, octet by octet: sendHexHeader, sendBinHeader, recvHeader. *)

ZACK == 3
ZFIN == 8
ZDATA == 10
ZFREECNT == 17
ZBINR32 == 68
ZVBIN == 97
ZVHEX == 98
ZVBIN32 == 99
ZVBINR32 == 100

\* crc16Calc: update and finalisation; crc16Verify: a payload followed by
\* its CRC-16, high octet first, updates to zero.  crc32Verify: the CRC-32 of
\* the payload is the four octets that follow it, low octet first.
crc16Calc(data) ==
    LET c == crc16Update(0, data)
    IN crc16Finalize(c)

crc16Verify(all) == crc16Update(0, all) = 0

crc32Verify(all) ==
    LET n == Len(all) - 4
        c == crc32Update(Crc32Zero, SubSeq(all, 1, n))
    IN \A i \in 1..4 : c[i] = all[n + i]

\* writeHex: two lowercase hex digits, written without touching lastSent.
HexDigit(v) == IF v < 10 THEN 48 + v ELSE 87 + v

writeHex(tw, b) == [tw EXCEPT !.out = @ \o <<HexDigit(b \div 16), HexDigit(b % 16)>>]

RECURSIVE writeHexAll(_, _)
writeHexAll(tw, data) ==
    IF data = <<>> THEN tw
    ELSE LET nx == writeHex(tw, Head(data))
         IN writeHexAll(nx, Tail(data))

writeRaw(tw, data) ==
    [tw EXCEPT !.out = @ \o data,
               !.lastSent = IF data = <<>> THEN @ ELSE data[Len(data)]]

\* sendHexHeader: ZPAD ZPAD ZDLE ZHEX, type, data and CRC-16 in hex, CR LF,
\* and XON unless the type is ZACK or ZFIN.
sendHexHeader(tw, T, D) ==
    LET payload == <<T>> \o D
        crc == crc16Calc(payload)
        t1 == writeRaw(tw, <<ZPAD, ZPAD, ZDLE, ZHEX>>)
        t2 == writeHexAll(t1, payload \o <<crc \div 256, crc % 256>>)
        t3 == writeByte(t2, 13)
        t4 == writeByte(t3, 10)
    IN IF T # ZACK /\ T # ZFIN THEN writeByte(t4, XON) ELSE t4

\* sendBinHeader: ZPAD ZDLE and ZBIN or ZBIN32, then type, data and CRC
\* escaped.
sendBinHeader(tw, useCRC32, T, D) ==
    LET payload == <<T>> \o D
        crc == IF useCRC32 THEN crc32Update(Crc32Zero, payload)
               ELSE LET c == crc16Calc(payload) IN <<c \div 256, c % 256>>
        t1 == writeRaw(tw, <<ZPAD, ZDLE, IF useCRC32 THEN ZBIN32 ELSE ZBIN>>)
        t2 == writeEscaped(t1, payload)
    IN writeEscaped(t2, crc)

\* readByte: the next octet as it is, ok FALSE at the end of the transport.
readByte(tr) ==
    IF tr.in = <<>> THEN [ok |-> FALSE, b |-> 0, tr |-> tr]
    ELSE [ok |-> TRUE, b |-> Head(tr.in), tr |-> [tr EXCEPT !.in = Tail(@)]]

\* scanForPad, octet by octet: skips to ZPAD [ZPAD] ZDLE and an encoding
\* octet, counting the octets skipped and consecutive CANs.
PadRes(enc, err, tr) == [enc |-> enc, err |-> err, tr |-> tr]

RECURSIVE scanLoop(_, _)
scanLoop(tr0, max) ==
    LET r1 == readByte(tr0)
        t1 == r1.tr
        can == [t1 EXCEPT !.canCount = @ + 1, !.garbageCount = @ + 1]
        bad1 == [t1 EXCEPT !.canCount = 0, !.garbageCount = @ + 1]
        pad == [t1 EXCEPT !.canCount = 0]
        r2 == readByte(pad)
        r3 == IF r2.ok /\ r2.b = ZPAD THEN readByte(r2.tr) ELSE r2
        t3 == r3.tr
        bad3 == [t3 EXCEPT !.garbageCount = @ + 1]
        r4 == readByte(t3)
        t4 == r4.tr
        bad4 == [t4 EXCEPT !.garbageCount = @ + 1]
        good == [t4 EXCEPT !.garbageCount = 0]
    IN  CASE ~r1.ok -> PadRes(0, "EOF", t1)
          [] r1.b = CAN /\ can.canCount >= 5 ->
                PadRes(0, "errAbortReceived", [t1 EXCEPT !.canCount = @ + 1])
          [] r1.b = CAN /\ can.garbageCount > max -> PadRes(0, "errGarbageOverflow", can)
          [] r1.b = CAN -> scanLoop(can, max)
          [] r1.b # ZPAD /\ bad1.garbageCount > max -> PadRes(0, "errGarbageOverflow", bad1)
          [] r1.b # ZPAD -> scanLoop(bad1, max)
          [] ~r2.ok -> PadRes(0, "EOF", r2.tr)
          [] ~r3.ok -> PadRes(0, "EOF", t3)
          [] r3.b # ZDLE /\ bad3.garbageCount > max -> PadRes(0, "errGarbageOverflow", bad3)
          [] r3.b # ZDLE -> scanLoop(bad3, max)
          [] ~r4.ok -> PadRes(0, "EOF", t4)
          [] r4.b \in {ZBIN, ZHEX, ZBIN32} -> PadRes(r4.b, "nil", good)
          [] r4.b \in {ZBINR32, ZVBIN, ZVHEX, ZVBIN32, ZVBINR32} ->
                PadRes(0, "errUnsupportedEnc", t4)
          [] bad4.garbageCount > max -> PadRes(0, "errGarbageOverflow", bad4)
          [] OTHER -> scanLoop(bad4, max)

scanForPad(tr, max) ==
    LET t0 == [tr EXCEPT !.canCount = 0]
    IN scanLoop(t0, max)

\* hexVal: the value of a hex digit of either case, -1 for any other octet.
hexVal(b) ==
    CASE b >= 48 /\ b <= 57 -> b - 48
      [] b >= 97 /\ b <= 102 -> b - 87
      [] b >= 65 /\ b <= 70 -> b - 55
      [] OTHER -> -1

\* readHex: two octets, the parity bit dropped, as one hex-coded octet.
readHex(tr) ==
    LET r1 == readByte(tr)
        r2 == readByte(r1.tr)
        h  == hexVal(r1.b % 128)
        l  == hexVal(r2.b % 128)
    IN  CASE ~r1.ok \/ ~r2.ok -> [err |-> "EOF", b |-> 0, tr |-> r2.tr]
          [] h < 0 \/ l < 0 -> [err |-> "invalid hex digits", b |-> 0, tr |-> r2.tr]
          [] OTHER -> [err |-> "nil", b |-> h * 16 + l, tr |-> r2.tr]

RECURSIVE readHexAll(_, _, _)
readHexAll(tr, n, acc) ==
    LET Step(r) ==
          IF r.err # "nil" THEN [err |-> "hex header read", raw |-> acc, tr |-> r.tr]
          ELSE readHexAll(r.tr, n - 1, Append(acc, r.b))
    IN  IF n = 0 THEN [err |-> "nil", raw |-> acc, tr |-> tr]
        ELSE Step(readHex(tr))

NoHeader == [Type |-> 0, Data |-> <<0, 0, 0, 0>>, Encoding |-> 0]
HdrRes(hdr, err, tr) == [hdr |-> IF err = "nil" THEN hdr ELSE NoHeader, err |-> err, tr |-> tr]

\* recvHexHeader: seven hex-coded octets, the CRC check, CR LF or LF alone,
\* and the XON that follows if it is there and already buffered.
recvHexHeader(tr, buffered) ==
    LET Term(x) ==
          LET hdr == [Type |-> x.raw[1], Data |-> SubSeq(x.raw, 2, 5), Encoding |-> ZHEX]
              cr  == readByte(x.tr)
              lf  == readByte(cr.tr)
              xon == readByte(lf.tr)
          IN  CASE x.err # "nil" -> HdrRes(hdr, x.err, x.tr)
                [] ~crc16Verify(x.raw) -> HdrRes(hdr, "hex header CRC error", x.tr)
                [] ~cr.ok -> HdrRes(hdr, "EOF", cr.tr)
                [] cr.b % 128 = 10 -> HdrRes(hdr, "nil", cr.tr)
                [] cr.b % 128 # 13 -> HdrRes(hdr, "expected CR after hex header", cr.tr)
                [] ~lf.ok -> HdrRes(hdr, "EOF", lf.tr)
                [] lf.b % 128 # 10 -> HdrRes(hdr, "expected LF after hex header CR", lf.tr)
                [] hdr.Type # ZACK /\ hdr.Type # ZFIN /\ buffered
                   /\ xon.ok /\ xon.b % 128 = XON -> HdrRes(hdr, "nil", xon.tr)
                [] OTHER -> HdrRes(hdr, "nil", lf.tr)
    IN Term(readHexAll(tr, 7, <<>>))

\* Five or more decoded octets of a binary header, none a frame end.
RECURSIVE zdlReadAll(_, _, _, _)
zdlReadAll(tr, n, acc, what) ==
    LET Step(z) ==
          CASE z.err # "nil" -> [err |-> what, raw |-> acc, tr |-> z.tr]
            [] z.fe # 0 -> [err |-> "unexpected frame end in header", raw |-> acc, tr |-> z.tr]
            [] OTHER -> zdlReadAll(z.tr, n - 1, Append(acc, z.b), what)
    IN  IF n = 0 THEN [err |-> "nil", raw |-> acc, tr |-> tr]
        ELSE Step(zdlRead(tr))

\* recvBinHeader: type and data, then two or four CRC octets, all through
\* zdlRead, and the CRC check over the lot.
recvBinHeader(tr, crc32mode) ==
    LET Crc(p) ==
          LET hdr == [Type |-> p.raw[1], Data |-> SubSeq(p.raw, 2, 5),
                      Encoding |-> IF crc32mode THEN ZBIN32 ELSE ZBIN]
              Check(c) ==
                CASE c.err # "nil" -> HdrRes(hdr, c.err, c.tr)
                  [] ~(IF crc32mode THEN crc32Verify(p.raw \o c.raw)
                       ELSE crc16Verify(p.raw \o c.raw)) ->
                        HdrRes(hdr, IF crc32mode THEN "bin32 header CRC error"
                                    ELSE "bin header CRC error", c.tr)
                  [] OTHER -> HdrRes(hdr, "nil", c.tr)
          IN  IF p.err # "nil" THEN HdrRes(NoHeader, p.err, p.tr)
              ELSE Check(zdlReadAll(p.tr, IF crc32mode THEN 4 ELSE 2, <<>>,
                                    "bin header CRC read"))
    IN Crc(zdlReadAll(tr, 5, <<>>, "bin header read"))

\* recvHeader: scanForPad, then the decoder of the encoding found; the
\* garbage count is reset after a header.
recvHeader(tr, max, buffered) ==
    LET Done(h) == IF h.err # "nil" THEN h ELSE [h EXCEPT !.tr.garbageCount = 0]
        Dec(s) ==
          IF s.err # "nil" THEN HdrRes(NoHeader, s.err, s.tr)
          ELSE Done(IF s.enc = ZHEX THEN recvHexHeader(s.tr, buffered)
                    ELSE recvBinHeader(s.tr, s.enc = ZBIN32))
    IN Dec(scanForPad(tr, max))

----------------------------------------------------------------------------
(* Headers written by sendHexHeader and sendBinHeader and read back by      *)
(* recvHeader, one after the other, as the header round-trip tests do.      *)

MaxHdrs == 2

\* Frame types: ZACK and ZFIN (no XON after the hex form), ZDATA, ZFREECNT
\* (the octet of XON) and the octet of ZDLE.
HdrTypes == {ZACK, ZFIN, ZDATA, ZFREECNT, ZDLE}

\* Header data: every mix of NUL and ZDLE, data with XON or XOFF, and two
\* with '@' CR, 0xc0 CR and octets with the high bit.
HdrData ==
    [1..4 -> {0, ZDLE}] \cup
    {<<XON, 0, 0, 0>>, <<0, 0, XOFF, 0>>, <<64, 13, 141, 255>>, <<192, 13, 127, 147>>}

\* env: the codec configuration and the header of the run; snd: the
\* transportWriter and the headers sent; s2r: the octets written and not
\* read yet; rcv: the reader's counters and what recvHeader returned.
InitHeader ==
    /\ env \in [mode : EscapeModes, useCRC32 : BOOLEAN, T : HdrTypes, D : HdrData]
    /\ snd = [tw |-> newTransportWriter(env.mode), sent |-> <<>>]
    /\ rcv = [canCount |-> 0, garbageCount |-> 0, got |-> <<>>]
    /\ s2r = <<>> /\ r2s = <<>>
    /\ ctx = [s |-> FALSE, r |-> FALSE]
    /\ faults = NoFaults
    /\ gd = InitGuard

\* sendHexHeader or sendBinHeader of (T, D), flushed to the transport.
HdrSend ==
    /\ Len(snd.sent) < MaxHdrs
    /\ \E hex \in BOOLEAN :
         LET tw == IF hex THEN sendHexHeader(snd.tw, env.T, env.D)
                   ELSE sendBinHeader(snd.tw, env.useCRC32, env.T, env.D)
             enc == CASE hex -> ZHEX [] env.useCRC32 -> ZBIN32 [] OTHER -> ZBIN
         IN /\ s2r' = s2r \o tw.out
            /\ snd' = [tw |-> [tw EXCEPT !.out = <<>>],
                       sent |-> Append(snd.sent,
                                       [Type |-> env.T, Data |-> env.D, Encoding |-> enc])]
    /\ UNCHANGED <<env, rcv, r2s, ctx, faults, gd>>

\* recvHeader on what the transport holds; buffered: whether the octet after
\* a hex header is in the reader's buffer already.
HdrRecv ==
    /\ Len(rcv.got) < Len(snd.sent)
    /\ \E buffered \in BOOLEAN :
         LET tr == [in |-> s2r, canCount |-> rcv.canCount,
                    garbageCount |-> rcv.garbageCount]
             r  == recvHeader(tr, DefaultGarbageThreshold, buffered)
         IN /\ s2r' = r.tr.in
            /\ rcv' = [canCount |-> r.tr.canCount, garbageCount |-> r.tr.garbageCount,
                       got |-> Append(rcv.got, [hdr |-> r.hdr, err |-> r.err])]
    /\ UNCHANGED <<env, snd, r2s, ctx, faults, gd>>

NextHeader == HdrSend \/ HdrRecv

SpecHeader == InitHeader /\ [][NextHeader]_vars

----------------------------------------------------------------------------
(* Sessions whose sender is configured with a MaxBlockSize below the        *)
(* initial block size, below the floor of the block size, or the default.   *)

TinyBlock == 16
SmallBlock == 128

BlockEnvs ==
    { [files |-> <<f>>, accept |-> <<Accept(0)>>,
       sCfg |-> [SenderCfg(u, 0) EXCEPT !.MaxBlockSize = mb], rCfg |-> ReceiverCfg(u, 0),
       coalesce |-> [s |-> c, r |-> c], timeouts |-> FALSE, sink |-> GoodSink]
      : f \in FileKinds, u \in BOOLEAN, c \in 1..MaxCoalesce,
        mb \in {TinyBlock, SmallBlock, DefaultMaxBlockSize} }

SpecBlock == InitIn(BlockEnvs) /\ [][NextLoop]_vars /\ FairLoop

\* C20: while the sender sends file data its block size is at most
\* Config.MaxBlockSize, no data subpacket carries more than MaxBlockSize
\* octets, and the read into buf[:blockSize] never leaves the buffer (no
\* panic), whatever MaxBlockSize >= 1 the Session was made with.
C20_BlockSizeBounded ==
    /\ snd.state = "dataLoop" => snd.blockSize <= env.sCfg.MaxBlockSize
    /\ snd.result # "panic"
    /\ \A i \in 1..Len(s2r) : s2r[i].k = "data" => s2r[i].n <= env.sCfg.MaxBlockSize

----------------------------------------------------------------------------
(* ZRPOS during the data phase *)

\* The sender, reading the reverse channel in the data phase (the sample at
\* the top of the loop, the window wait, the ZCRCQ or ZCRCW wait, or
\* stxEOFAck), reads a well-formed ZRPOS header.
ProcessesDataZrpos ==
    /\ snd.state # "returned"
    /\ \/ snd.wait \in {"peek", "window", "zcrcq", "zcrcw"}
       \/ snd.wait = "hdr" /\ snd.state = "stxEOFAck"
    /\ r2s # <<>> /\ Head(r2s).k = "hdr" /\ Head(r2s).ok /\ Head(r2s).t = "ZRPOS"
    /\ r2s' = Tail(r2s) /\ snd' # snd

\* C21: each ZRPOS the sender processes during data transfer sets the block
\* size to max(previous block size / 2, 32), resets the good-block counter to
\* 0 and marks the file unreliable.
C21_ZrposHalvesBlock ==
    [][ProcessesDataZrpos =>
        /\ snd'.blockSize = Max2(snd.blockSize \div 2, MinBlockSize)
        /\ snd'.goodBlocks = 0
        /\ snd'.unreliable]_vars

\* A receiver that is not this program answers the data subpacket it has read
\* with a ZRPOS at the start or the end of the subpacket, or with a ZACK at
\* its start (a stale one when the subpacket carries data), or not at all.
PeerDisturb ==
    /\ faults.inject < MaxInject
    /\ s2r # <<>> /\ Head(s2r).k = "data"
    /\ \E out \in {<<HexHdr("ZRPOS", Head(s2r).pos)>>,
                   <<HexHdr("ZRPOS", Head(s2r).pos + Head(s2r).n)>>,
                   <<HexHdr("ZACK", Head(s2r).pos)>>, <<>>} : r2s' = r2s \o out
    /\ s2r' = Tail(s2r)
    /\ faults' = [faults EXCEPT !.inject = @ + 1]
    /\ UNCHANGED <<env, snd, rcv, ctx, gd>>

\* An empty, a short or a long file sent over a deadline-capable transport to
\* such a receiver, with or without CANFDX and a window. The sender's read
\* deadline expires only when that receiver has read all that was sent to it.
FlushEnvs ==
    { [files |-> <<File(n, TRUE, e)>>, accept |-> <<Accept(0)>>,
       sCfg |-> SenderCfg(FALSE, 0), rCfg |-> ReceiverCfg(FALSE, 0),
       coalesce |-> [s |-> 1, r |-> 1], timeouts |-> TRUE, sink |-> GoodSink,
       peer |-> [fdx |-> x, window |-> w]]
      : n \in {0, SmallSize, LargeSize}, e \in BOOLEAN, x \in BOOLEAN, w \in {0, SmallWindow} }

InitFlush ==
    /\ env \in FlushEnvs
    /\ snd = InitSnd /\ rcv = [InitRcv EXCEPT !.state = "srxFileWait", !.mode = "hdr"]
    /\ s2r = <<>> /\ r2s = <<>>
    /\ ctx = [s |-> FALSE, r |-> FALSE]
    /\ faults = NoFaults
    /\ gd = InitGuard

NextFlush == SndStep \/ SndRecv \/ SndTimeout \/ PeerRecv \/ PeerDisturb

SpecFlush == InitFlush /\ [][NextFlush]_vars

\* A ZRPOS read in the data phase restarts the data frame at its position with
\* a flush pending, and the restart emits the ZDATA header at that position.
ZrposRestartsFrame ==
    /\ [][ProcessesDataZrpos =>
            /\ NewFrames = <<>>
            /\ snd'.state = "stxData" /\ snd'.wait = "none"
            /\ snd'.fileOffset = Head(r2s).pos /\ snd'.zcrcwNext]_vars
    /\ [][snd.state = "stxData" /\ snd' # snd =>
            NewFrames = <<BinHdr("ZDATA", snd.fileOffset, snd.useCRC32)>>]_vars

\* The ZCRCW wait: nothing is sent; a ZACK at the sender's offset ends the
\* flush, a ZRPOS starts another recovery, and any other header or a failed
\* read is counted, the MaxRetries-th one ending Send with an error.
ZcrcwWaitRule ==
    [][snd.wait = "zcrcw" /\ snd' # snd =>
        LET read == r2s' # r2s
            h    == Head(r2s)
        IN  /\ NewFrames = <<>>
            /\ CASE read /\ h.t = "ZACK" /\ h.pos = snd.fileOffset ->
                      /\ snd'.state = "stxData" /\ snd'.wait = "none"
                      /\ ~snd'.zcrcwNext /\ snd'.fileOffset = snd.fileOffset
                 [] read /\ h.t = "ZRPOS" ->
                      /\ snd'.state = "stxData" /\ snd'.zcrcwNext
                      /\ snd'.fileOffset = h.pos
                 [] snd.zcrcwRetries + 1 >= env.sCfg.MaxRetries ->
                      snd'.state = "returned" /\ snd'.result = "zcrcw retries"
                 [] OTHER ->
                      /\ snd'.wait = "zcrcw" /\ snd'.state = snd.state
                      /\ snd'.zcrcwRetries = snd.zcrcwRetries + 1
                      /\ snd'.fileOffset = snd.fileOffset]_vars

\* C22 as stated: after a ZRPOS at p the sender emits ZDATA at p and then a
\* data subpacket closed by ZCRCW, and waits as ZcrcwWaitRule says.
C22_FlushAfterZrpos ==
    /\ ZrposRestartsFrame
    /\ [][snd.zcrcwNext /\ snd.state = "dataLoop" /\ NewFrames # <<>> =>
            /\ Len(NewFrames) = 1 /\ NewFrames[1].k = "data"
            /\ NewFrames[1].t = "ZCRCW" /\ snd'.wait = "zcrcw"]_vars
    /\ ZcrcwWaitRule

\* C22, amended: after a ZRPOS at p the sender emits ZDATA at p; while the
\* flush is pending every data-bearing subpacket it emits is closed by ZCRCW
\* and puts it in the ZCRCW wait, and when the reader has no octet left at p
\* it emits an empty ZCRCE subpacket (then ZEOF) instead; the wait is as
\* ZcrcwWaitRule says.
C22_FlushAfterZrposWithData ==
    /\ ZrposRestartsFrame
    /\ [][snd.zcrcwNext /\ snd.state = "dataLoop" =>
            \A i \in 1..Len(NewFrames) :
                LET m == NewFrames[i]
                IN  /\ m.k = "data"
                    /\ m.n > 0 => m.t = "ZCRCW" /\ snd'.wait = "zcrcw"
                    /\ (m.n = 0 /\ snd.wait = "none" /\ ~WindowFull(snd)
                          /\ ~PeekZPAD(r2s, snd.rbuf)) =>
                          /\ m.t = "ZCRCE" /\ m.pos = Offer(snd.curOffer).size
                          /\ snd'.state = "stxEOF"]_vars
    /\ ZcrcwWaitRule

\* After a ZRPOS the sender has sent its ZCRCW flush and has ignored two
\* replies while waiting for the matching ZACK.
C22_Witness ==
    /\ snd.unreliable /\ snd.zcrcwNext /\ snd.wait = "zcrcw"
    /\ snd.zcrcwRetries = 2 /\ snd.fileOffset > 0

----------------------------------------------------------------------------
(* The per-file state of the sender *)

\* C23: whenever the sender starts a new file (NextFile returned an offer and
\* the ZFILE header is about to be sent), its per-file state is offset 0,
\* bytes sent 0, block size 256, good-block counter 0, unreliable false and
\* zcrcw-next false, whatever happened during the previous file.
C23_PerFileReset ==
    snd.state = "stxFileInfo" =>
        /\ snd.fileOffset = 0 /\ snd.bytesSent = 0
        /\ snd.blockSize = InitBlockSize /\ snd.goodBlocks = 0
        /\ ~snd.unreliable /\ ~snd.zcrcwNext

----------------------------------------------------------------------------
(* Errors while a file is being received *)

\* One file of any kind over a transport with read deadlines that may damage
\* one data subpacket.
RetryEnvs ==
    { [files |-> <<a>>, accept |-> <<Accept(0)>>,
       sCfg |-> SenderCfg(u, 0), rCfg |-> ReceiverCfg(u, 0),
       coalesce |-> [s |-> c, r |-> c], timeouts |-> TRUE, sink |-> GoodSink]
      : a \in FileKinds, u \in BOOLEAN, c \in 1..MaxCoalesce }

NextRetry ==
    \/ SndStep \/ SndRecv \/ SndTimeout
    \/ RcvStep \/ RcvRecv \/ RcvTimeout
    \/ Corrupt

SpecRetry == InitIn(RetryEnvs) /\ [][NextRetry]_vars

\* The frames a step of the receiver appends to the reverse channel.
NewReplies ==
    IF Len(r2s') > Len(r2s) THEN SubSeq(r2s', Len(r2s) + 1, Len(r2s')) ELSE <<>>

\* In srxData a read of the receiver fails: the deadline of a header or
\* subpacket read expires, a header arrives damaged, or the subpacket read
\* ends on a CRC that does not match.
RcvReadFails ==
    /\ rcv.state = "srxData" /\ rcv' # rcv
    /\ \/ s2r' = s2r
       \/ /\ rcv.mode = "hdr" /\ s2r # <<>>
          /\ Head(s2r).k = "hdr" /\ ~Head(s2r).ok
       \/ /\ rcv.mode = "sub" /\ s2r # <<>> /\ Head(s2r).k = "data"
          /\ (rcv.poison \/ ~SubOk(Head(s2r), rcv.useCRC32))

\* C24: while receiving a file, each header-read or subpacket error makes the
\* receiver discard buffered input and send ZRPOS at fileOffset; the retry
\* counter returns to zero on every successful non-empty data write; after 25
\* such retries in a row the next error is fatal: the writer is closed,
\* FileCompleted is called with a non-nil error and Receive returns an error.
C24_DataRetries ==
    /\ [][RcvReadFails =>
            IF rcv.retries >= DataRetryLimit
            THEN /\ rcv'.state = "returned" /\ rcv'.result = "max retries"
                 /\ ~rcv'.writerOpen /\ NewReplies = <<>>
                 /\ rcv'.completed = Append(rcv.completed,
                        [file |-> rcv.curInfo.f, bytes |-> rcv.bytesReceived,
                         err |-> "max retries"])
            ELSE /\ rcv'.state = "srxData" /\ rcv'.mode = "hdr"
                 /\ rcv'.retries = rcv.retries + 1
                 /\ rcv'.rbuf = 0
                 /\ NewReplies = <<HexHdr("ZRPOS", rcv.fileOffset)>>
                 /\ rcv'.fileOffset = rcv.fileOffset
                 /\ rcv'.completed = rcv.completed /\ rcv'.writerOpen]_vars
    /\ [][rcv.state = "srxData" /\ rcv'.fileOffset > rcv.fileOffset =>
            rcv'.retries = 0]_vars
    /\ [](rcv.state = "srxData" => rcv.retries <= DataRetryLimit)

\* Twenty-six reads in a row failed while a file was open: the receiver sent
\* ZRPOS after each of the first twenty-five (the sender read the first and
\* returned) and gave the file up on the last.
C24_Witness ==
    /\ rcv.state = "returned" /\ rcv.result = "max retries" /\ rcv.retries = DataRetryLimit + 1
    /\ ~rcv.writerOpen /\ Len(rcv.completed) = 1 /\ rcv.completed[1].err = "max retries"
    /\ snd.state = "returned" /\ Len(r2s) = DataRetryLimit - 1
    /\ \A i \in 1..Len(r2s) : r2s[i] = HexHdr("ZRPOS", rcv.fileOffset)

----------------------------------------------------------------------------
(* Garbage on the line *)

\* Line noise: octets that are no frame turn up in front of a call that is
\* about to scan for a header, as many as the garbage threshold allows or
\* one more.
InjectGarbage ==
    /\ faults.inject < MaxInject
    /\ \E n \in {DefaultGarbageThreshold, DefaultGarbageThreshold + 1} :
         \/ /\ rcv.state # "returned" /\ rcv.mode = "hdr" /\ rcv.rbuf = 0
            /\ s2r' = <<RawOctets(n)>> \o s2r /\ r2s' = r2s
         \/ /\ snd.state # "returned" /\ snd.wait \notin {"none", "peek"} /\ snd.rbuf = 0
            /\ r2s' = <<RawOctets(n)>> \o r2s /\ s2r' = s2r
    /\ faults' = [faults EXCEPT !.inject = @ + 1]
    /\ UNCHANGED <<env, snd, rcv, ctx, gd>>

\* An empty batch or one short file over a transport that delivers one Flush
\* per read.
GarbageEnvs ==
    { [files |-> b, accept |-> [i \in 1..Len(b) |-> Accept(0)],
       sCfg |-> SenderCfg(u, 0), rCfg |-> ReceiverCfg(u, 0),
       coalesce |-> [s |-> 1, r |-> 1], timeouts |-> FALSE, sink |-> GoodSink]
      : b \in {<<>>, <<File(SmallSize, TRUE, FALSE)>>}, u \in BOOLEAN }

NextGarbage == SndStep \/ SndRecv \/ RcvStep \/ RcvRecv \/ InjectGarbage

SpecGarbage == InitIn(GarbageEnvs) /\ [][NextGarbage]_vars /\ FairLoop

\* C25: when a frame scan has consumed more than GarbageThreshold non-frame
\* octets since the last valid frame start, the scan fails and the error is
\* fatal: the running Send or Receive returns with it in that very step,
\* sending no ZNAK or ZRPOS and reading no further.
C25_GarbageOverflowFatal ==
    /\ [][(rcv' # rcv /\ rcv.mode = "hdr" /\ rcv'.garbage > env.rCfg.GarbageThreshold) =>
            /\ rcv'.state = "returned" /\ rcv'.result \notin {"running", "nil"}
            /\ NewReplies = <<>>]_vars
    /\ [][(snd' # snd /\ snd.wait # "none" /\ snd'.garbage > env.sCfg.GarbageThreshold) =>
            /\ snd'.state = "returned" /\ snd'.result \notin {"running", "nil"}
            /\ NewFrames = <<>>]_vars

----------------------------------------------------------------------------
(* The end of a file at the receiver *)

\* The receiver, waiting for a header in srxData, reads a well-formed ZEOF.
ReadsZEOF ==
    /\ rcv.state = "srxData" /\ rcv.mode = "hdr"
    /\ s2r # <<>> /\ Head(s2r).k = "hdr" /\ Head(s2r).ok /\ Head(s2r).t = "ZEOF"
    /\ s2r' = Tail(s2r)

\* C26: the receiver reports a file as successfully completed (FileCompleted
\* with a nil error, writer closed, ZRINIT sent) only after reading a ZEOF
\* whose position equals fileOffset; a ZEOF with any other position produces
\* no reply, closes nothing and leaves the receiver in the Data state with
\* fileOffset unchanged.
C26_ZeofAtOffset ==
    /\ [][(rcv'.state = "srxEOF" /\ rcv.state # "srxEOF") =>
            ReadsZEOF /\ Head(s2r).pos = rcv.fileOffset]_vars
    /\ [][(rcv'.completed # rcv.completed
            /\ rcv'.completed[Len(rcv'.completed)].err = "nil") =>
            /\ rcv.state = "srxEOF" /\ rcv.writerOpen /\ ~rcv'.writerOpen
            /\ rcv'.completed = Append(rcv.completed,
                   [file |-> rcv.curInfo.f, bytes |-> rcv.bytesReceived, err |-> "nil"])
            /\ NewReplies = <<ZRINITHdr>>]_vars
    /\ [][(ReadsZEOF /\ Head(s2r).pos # rcv.fileOffset) =>
            /\ NewReplies = <<>>
            /\ rcv' = [rcv EXCEPT !.consecutiveErr = 0, !.garbage = 0,
                                  !.rbuf = rcv'.rbuf]]_vars

\* The sender's ZEOF at the end of the file reached a receiver that had asked
\* for a retransmission: it was read and ignored, the file is still open and
\* the receiver still waits in the Data state at its own offset.
C26_Witness ==
    /\ rcv.state = "srxData" /\ rcv.mode = "hdr" /\ rcv.writerOpen
    /\ s2r = <<>> /\ snd.state = "stxEOFAck"
    /\ snd.fileOffset > rcv.fileOffset
    /\ r2s = <<HexHdr("ZRPOS", rcv.fileOffset)>>
    /\ rcv.completed = <<>>

----------------------------------------------------------------------------
(* Acknowledgements during data reception *)

\* The receiver, inside a data frame, reads a data subpacket whose CRC matches.
ReadsGoodSubpacket ==
    /\ rcv.state = "srxData" /\ rcv.mode = "sub" /\ ~rcv.poison
    /\ s2r # <<>> /\ Head(s2r).k = "data" /\ SubOk(Head(s2r), rcv.useCRC32)
    /\ s2r' = Tail(s2r)

\* C27: during data reception the receiver sends a ZACK exactly once for
\* every subpacket ending in ZCRCQ or ZCRCW and never for ZCRCG or ZCRCE; the
\* ZACK carries fileOffset after the payload of that subpacket was written;
\* after ZCRCG and ZCRCQ the receiver reads the next subpacket of the frame,
\* after ZCRCW and ZCRCE it reads a header.
C27_AckPerCheckpoint ==
    /\ [][ReadsGoodSubpacket =>
            LET m == Head(s2r)
            IN  /\ rcv'.fileOffset = rcv.fileOffset + m.n
                /\ NewReplies = (IF m.t \in {"ZCRCQ", "ZCRCW"}
                                 THEN <<HexHdr("ZACK", rcv.fileOffset + m.n)>>
                                 ELSE <<>>)
                /\ rcv'.state = "srxData"
                /\ rcv'.mode = (IF m.t \in {"ZCRCG", "ZCRCQ"} THEN "sub" ELSE "hdr")]_vars
    /\ [][(rcv.state = "srxData"
            /\ \E i \in 1..Len(NewReplies) : NewReplies[i].t = "ZACK") =>
            ReadsGoodSubpacket /\ Head(s2r).t \in {"ZCRCQ", "ZCRCW"}]_vars

\* A ZCRCQ subpacket was acknowledged at the offset reached by the writes so
\* far, and the receiver is reading the next subpacket of the same frame.
C27_Witness ==
    /\ rcv.state = "srxData" /\ rcv.mode = "sub" /\ rcv.fileOffset > 0
    /\ rcv.lastWrite.before + rcv.lastWrite.n = rcv.fileOffset
    /\ r2s = <<HexHdr("ZACK", rcv.fileOffset)>>

----------------------------------------------------------------------------
(* ZEOF *)

\* C28: every ZEOF header the sender emits carries the sender's final file
\* offset, the end of the file, and is sent only after the current data frame
\* was closed by a ZCRCE-terminated subpacket: the sender comes to stxEOF only
\* by sending such a subpacket (an empty one when the reader reports EOF with
\* no data) or to repeat a ZEOF that was answered with ZNAK, and sends the
\* ZEOF from there.
C28_ZeofAfterZcrce ==
    /\ [][(snd'.state = "stxEOF" /\ snd.state # "stxEOF") =>
            \/ /\ Len(NewFrames) = 1 /\ NewFrames[1].k = "data"
               /\ NewFrames[1].t = "ZCRCE"
               /\ NewFrames[1].pos + NewFrames[1].n = snd'.fileOffset
               /\ NewFrames[1].n > 0 => AtEOF(NewFrames[1])
            \/ /\ snd.state = "stxEOFAck" /\ NewFrames = <<>>
               /\ r2s # <<>> /\ Head(r2s).t = "ZNAK"]_vars
    /\ [][(\E i \in 1..Len(NewFrames) : NewFrames[i].k = "hdr" /\ NewFrames[i].t = "ZEOF") =>
            /\ snd.state = "stxEOF"
            /\ NewFrames = <<HexHdr("ZEOF", snd.fileOffset)>>
            /\ snd.fileOffset = Offer(snd.curOffer).size
            /\ snd.fileOffset = snd.readerPos]_vars
    /\ [](snd.state = "stxEOF" => snd.fileOffset = Offer(snd.curOffer).size)

\* A ZCRCW flush after a ZRPOS carried the last octets of the file and was
\* acknowledged: the sender opened a new frame at the end of the file, closed
\* it with an empty ZCRCE subpacket and sent ZEOF.
C28_Witness ==
    LET n    == Len(s2r)
        size == Offer(snd.curOffer).size
    IN  /\ snd.state = "stxEOFAck" /\ snd.unreliable /\ ~snd.zcrcwNext
        /\ size > 0 /\ n >= 3
        /\ s2r[n - 2] = BinHdr("ZDATA", size, snd.useCRC32)
        /\ s2r[n - 1] = SubPkt("data", snd.curOffer, size, 0, "ZCRCE", snd.useCRC32)
        /\ s2r[n] = HexHdr("ZEOF", size)

----------------------------------------------------------------------------
(* The end of the session, sender side *)

\* A receiver that is not this program answers a ZFIN with ZNAK, with a header
\* that is neither ZFIN nor ZNAK, or not at all.
PeerFinish ==
    /\ faults.inject < MaxInject
    /\ s2r # <<>> /\ Head(s2r).k = "hdr" /\ Head(s2r).t = "ZFIN"
    /\ \E out \in {<<HexHdr("ZNAK", 0)>>, <<PeerZRINIT>>, <<>>} : r2s' = r2s \o out
    /\ s2r' = Tail(s2r)
    /\ faults' = [faults EXCEPT !.inject = @ + 1]
    /\ UNCHANGED <<env, snd, rcv, ctx, gd>>

\* No file, one file or two files sent over a deadline-capable transport to
\* such a receiver.
FinEnvs ==
    { [files |-> b, accept |-> [i \in 1..Len(b) |-> Accept(0)],
       sCfg |-> SenderCfg(FALSE, 0), rCfg |-> ReceiverCfg(FALSE, 0),
       coalesce |-> [s |-> 1, r |-> 1], timeouts |-> TRUE, sink |-> GoodSink,
       peer |-> [fdx |-> x, window |-> 0]]
      : b \in {<<>>, <<File(0, TRUE, FALSE)>>, <<File(SmallSize, TRUE, TRUE)>>,
               <<File(SmallSize, TRUE, FALSE), File(0, TRUE, TRUE)>>},
        x \in BOOLEAN }

InitFin ==
    /\ env \in FinEnvs
    /\ snd = InitSnd /\ rcv = [InitRcv EXCEPT !.state = "srxFileWait", !.mode = "hdr"]
    /\ s2r = <<>> /\ r2s = <<>>
    /\ ctx = [s |-> FALSE, r |-> FALSE]
    /\ faults = NoFaults
    /\ gd = InitGuard

NextFin == SndStep \/ SndRecv \/ SndTimeout \/ PeerRecv \/ PeerFinish

SpecFin == InitFin /\ [][NextFin]_vars

\* The step sends the header of type t.
SendsHeader(t) ==
    \E i \in 1..Len(NewFrames) : NewFrames[i].k = "hdr" /\ NewFrames[i].t = t

\* In stxFinAck the sender reads a ZFIN header.
ReadsFinReply ==
    /\ snd.state = "stxFinAck" /\ snd.wait = "hdr"
    /\ r2s # <<>> /\ Head(r2s).k = "hdr" /\ Head(r2s).ok /\ Head(r2s).t = "ZFIN"
    /\ r2s' = Tail(r2s) /\ snd' # snd

\* The step writes the two octets "OO".
WritesOO == snd'.oo /\ ~snd.oo

\* C29: the sender sends ZFIN only after NextFile has returned nil and sends
\* no ZFILE afterwards; it writes "OO" exactly when it receives a ZFIN in
\* reply to its ZFIN, as the last octets of the session; and when the session
\* ends in stxFin or stxFinAck for any other reason, exhausted retries with no
\* reply among them, Send returns nil and has not written "OO".
C29_FinAndOO ==
    /\ [][SendsHeader("ZFIN") =>
            /\ snd.state = "stxFin" /\ NewFrames = <<HexHdr("ZFIN", 0)>>
            /\ snd.nextFileCalls = Len(env.files) + 1]_vars
    /\ [][SendsHeader("ZFILE") => snd.nextFileCalls <= Len(env.files)]_vars
    /\ [][snd'.nextFileCalls >= snd.nextFileCalls]_vars
    /\ [][WritesOO <=> ReadsFinReply]_vars
    /\ [][WritesOO =>
            /\ NewFrames = <<RawOctets(2)>>
            /\ snd'.state = "returned" /\ snd'.result = "nil"]_vars
    /\ [][snd.state = "returned" => snd' = snd /\ NewFrames = <<>>]_vars
    /\ [][(snd.state \in {"stxFin", "stxFinAck"} /\ snd'.state = "returned") =>
            /\ snd'.result = "nil"
            /\ ~ReadsFinReply => ~snd'.oo /\ NewFrames \in {<<>>, <<HexHdr("ZFIN", 0)>>}]_vars

\* The sender's first ZFIN was answered with ZNAK, its second with ZFIN: it
\* has written "OO" behind the second ZFIN and returned nil.
C29_Witness ==
    /\ snd.state = "returned" /\ snd.result = "nil" /\ snd.oo
    /\ snd.retries = 1 /\ Len(env.files) = 2
    /\ s2r = <<RawOctets(2)>> /\ r2s = <<>>

----------------------------------------------------------------------------
(* A session that ends while a file is being received *)

\* A ZFIN header reaches the receiver while it is in srxData: the sending
\* side gave the session up.
InjectFin ==
    /\ faults.inject < MaxInject
    /\ rcv.state = "srxData" /\ rcv.mode = "hdr" /\ rcv.rbuf = 0
    /\ s2r' = <<HexHdr("ZFIN", 0)>> \o s2r
    /\ faults' = [faults EXCEPT !.inject = @ + 1]
    /\ UNCHANGED <<env, snd, rcv, r2s, ctx, gd>>

NextPremature == SndStep \/ SndRecv \/ RcvStep \/ RcvRecv \/ InjectFin

SpecPremature == InitIn(CorruptEnvs) /\ [][NextPremature]_vars /\ FairLoop

\* The receiver's recvHeader returns a ZFIN header.
ReadsZFIN ==
    /\ rcv.mode = "hdr"
    /\ s2r # <<>> /\ Head(s2r).k = "hdr" /\ Head(s2r).ok /\ Head(s2r).t = "ZFIN"
    /\ s2r' = Tail(s2r) /\ rcv' # rcv

\* C30: a ZFIN header read while a file is being received makes the receiver
\* close the writer and call FileCompleted for that file with the "session
\* ended prematurely" error (not nil, not ErrSkip); it then replies with ZFIN
\* and finishes; and Receive returns nil only from srxFin, which it enters
\* only by reading a ZFIN and leaves only by sending its own.
C30_PrematureFin ==
    /\ [][(ReadsZFIN /\ rcv.state = "srxData") =>
            /\ rcv'.state = "srxFin" /\ ~rcv'.writerOpen
            /\ rcv'.completed = Append(rcv.completed,
                    [file |-> rcv.curInfo.f, bytes |-> rcv.bytesReceived, err |-> "premature"])
            /\ NewReplies = <<>>]_vars
    /\ [][(rcv.state = "srxFin" /\ rcv' # rcv) =>
            /\ rcv'.state = "returned" /\ rcv'.result = "nil"
            /\ rcv'.completed = rcv.completed
            /\ NewReplies = <<HexHdr("ZFIN", 0)>>]_vars
    /\ [][(rcv'.state = "srxFin" /\ rcv.state # "srxFin") =>
            ReadsZFIN /\ rcv.state \in {"srxFileWait", "srxData"}]_vars
    /\ [][(rcv'.state = "returned" /\ rcv.state # "returned" /\ rcv'.result = "nil") =>
            rcv.state = "srxFin"]_vars
    /\ (rcv.state = "srxFin") ~> (rcv.state = "returned" /\ rcv.result = "nil")

\* The first file was received whole; a ZFIN came before the ZEOF of the
\* second, after its data: the receiver reported the second file as ended
\* prematurely, sent ZFIN and returned nil.
C30_Witness ==
    /\ rcv.state = "returned" /\ rcv.result = "nil" /\ ~rcv.writerOpen
    /\ Len(rcv.completed) = 2
    /\ rcv.completed[1].err = "nil"
    /\ rcv.completed[2] = [file |-> 2, bytes |-> rcv.bytesReceived, err |-> "premature"]
    /\ rcv.bytesReceived > 0 /\ rcv.bytesReceived = Offer(2).size
    /\ r2s # <<>> /\ r2s[Len(r2s)] = HexHdr("ZFIN", 0)

----------------------------------------------------------------------------
(* The CRC width the sender writes with *)

\* A receiver that is not this program answers ZRQINIT or ZEOF with a ZRINIT
\* that advertises CANFC32 (its other ZRINITs, PeerZRINIT, do not).
PeerInit32 ==
    /\ s2r # <<>> /\ Head(s2r).k = "hdr" /\ Head(s2r).t \in {"ZRQINIT", "ZEOF"}
    /\ r2s' = r2s \o <<HexHdr("ZRINIT", WithZF0(CANFDX + CANOVIO + CANFC32))>>
    /\ s2r' = Tail(s2r)
    /\ UNCHANGED <<env, snd, rcv, ctx, faults, gd>>

\* One or two short files sent, with or without Use32BitCRC, to such a receiver.
CrcModeEnvs ==
    { [files |-> b, accept |-> [i \in 1..Len(b) |-> Accept(0)],
       sCfg |-> SenderCfg(u, 0), rCfg |-> ReceiverCfg(u, 0),
       coalesce |-> [s |-> 1, r |-> 1], timeouts |-> FALSE, sink |-> GoodSink,
       peer |-> [fdx |-> TRUE, window |-> 0]]
      : b \in {<<File(SmallSize, TRUE, e)>> : e \in BOOLEAN}
              \cup {<<File(0, TRUE, FALSE), File(SmallSize, TRUE, e)>> : e \in BOOLEAN},
        u \in BOOLEAN }

NextCrcMode == SndStep \/ SndRecv \/ PeerRecv \/ PeerInit32

SpecCrcMode == InitIn(CrcModeEnvs) /\ [][NextCrcMode]_vars

\* C31: every binary header and data subpacket the sender emits uses CRC-32
\* (ZBIN32) exactly when Config.Use32BitCRC is set and the most recently
\* processed ZRINIT advertised CANFC32, and CRC-16 (ZBIN) otherwise; hex
\* headers always use CRC-16.
C31_CrcFollowsLastZrinit ==
    [][\A i \in 1..Len(NewFrames) :
         LET m   == NewFrames[i]
             c32 == env.sCfg.Use32BitCRC /\ HasBit(snd'.remoteFlags, CANFC32)
         IN  /\ (m.k = "hdr" /\ m.enc # "ZHEX") => (m.enc = IF c32 THEN "ZBIN32" ELSE "ZBIN")
             /\ m.k \in {"data", "info", "attn"} => (m.enc = IF c32 THEN "crc32" ELSE "crc16")
             /\ (m.k = "hdr" /\ m.t \in {"ZRQINIT", "ZEOF", "ZFIN", "ZACK", "ZSKIP", "ZCRC"})
                    => m.enc = "ZHEX"]_vars

----------------------------------------------------------------------------
(* ZSINIT *)

\* A receiver that is not this program answers the attention subpacket of a
\* ZSINIT with ZACK, with ZNAK, or with a header that is neither.
PeerAttn ==
    /\ s2r # <<>> /\ Head(s2r).k = "attn"
    /\ \E out \in {<<HexHdr("ZACK", 0)>>, <<HexHdr("ZNAK", 0)>>, <<PeerZRINIT>>} :
         r2s' = r2s \o out
    /\ s2r' = Tail(s2r)
    /\ UNCHANGED <<env, snd, rcv, ctx, faults, gd>>

\* One short file sent to such a receiver with no attention sequence, a short
\* one, one of AttnMax octets and one longer than that.
SInitEnvs ==
    { [files |-> <<File(SmallSize, TRUE, e)>>, accept |-> <<Accept(0)>>,
       sCfg |-> SenderCfg(u, a), rCfg |-> ReceiverCfg(u, 0),
       coalesce |-> [s |-> 1, r |-> 1], timeouts |-> FALSE, sink |-> GoodSink,
       peer |-> [fdx |-> TRUE, window |-> 0]]
      : e \in BOOLEAN, u \in BOOLEAN, a \in {0, 2, AttnMax, AttnMax + 1} }

NextSInit == SndStep \/ SndRecv \/ PeerRecv \/ PeerAttn

SpecSInit == InitIn(SInitEnvs) /\ [][NextSInit]_vars /\ WF_vars(SndStep)

\* The sender's recvHeaderRetry returns the header at the head of the
\* reverse channel while the sender is in state st.
SndReadsIn(st) ==
    /\ snd.state = st /\ snd.wait = "hdr"
    /\ r2s # <<>> /\ Head(r2s).k = "hdr" /\ Head(r2s).ok
    /\ r2s' = Tail(r2s) /\ snd' # snd

\* C32: the sender sends ZSINIT exactly when Config.AttnSequence is not empty
\* (it goes from stxInit to stxSInit then, and there it sends the header and a
\* ZCRCW subpacket of at most 32 attention octets and one NUL); it leaves
\* stxSInit for the first file only by reading a ZACK, so no ZFILE precedes
\* that ZACK; a ZNAK counts one retry and makes it send header and subpacket
\* again, never with more than MaxRetries retries counted; any other reply
\* makes Send fail.
C32_ZsinitExchange ==
    /\ [][(snd.state = "stxInit" /\ snd'.state \notin {"stxInit", "returned"}) =>
            snd'.state = IF env.sCfg.AttnLen > 0 THEN "stxSInit" ELSE "stxNextFile"]_vars
    /\ [][SendsHeader("ZSINIT") =>
            /\ env.sCfg.AttnLen > 0 /\ snd.state = "stxSInit" /\ snd.wait = "none"
            /\ snd.retries <= env.sCfg.MaxRetries]_vars
    /\ [][(snd.state = "stxSInit" /\ snd.wait = "none" /\ snd' # snd) =>
            /\ Len(NewFrames) = 2
            /\ NewFrames[1].k = "hdr" /\ NewFrames[1].t = "ZSINIT"
            /\ NewFrames[1].enc \in {"ZBIN", "ZBIN32"}
            /\ NewFrames[2].k = "attn" /\ NewFrames[2].t = "ZCRCW"
            /\ NewFrames[2].n = Min2(env.sCfg.AttnLen, AttnMax) + 1
            /\ NewFrames[2].n - 1 <= 32]_vars
    /\ [][(snd.state = "stxSInit" /\ snd'.state \notin {"stxSInit", "returned"}) =>
            /\ SndReadsIn("stxSInit") /\ Head(r2s).t = "ZACK"
            /\ snd'.state = "stxNextFile" /\ NewFrames = <<>>]_vars
    /\ [][SendsHeader("ZFILE") => snd.state = "stxFileInfo"]_vars
    /\ [][(snd'.state = "stxFileInfo" /\ snd.state # "stxFileInfo") =>
            snd.state \in {"stxNextFile", "stxFileInfoAck"}]_vars
    /\ [][(SndReadsIn("stxSInit") /\ Head(r2s).t = "ZNAK") =>
            /\ snd'.state = "stxSInit" /\ snd'.wait = "none"
            /\ snd'.retries = snd.retries + 1 /\ NewFrames = <<>>]_vars
    /\ [][(SndReadsIn("stxSInit") /\ Head(r2s).t \notin {"ZACK", "ZNAK"}) =>
            /\ snd'.state = "returned" /\ snd'.result \notin {"nil", "running"}
            /\ NewFrames = <<>>]_vars
    /\ (snd.state = "stxSInit" /\ snd.wait = "none") ~>
            (snd.state = "returned" \/ snd.wait = "hdr")

\* An attention sequence longer than 32 octets: two ZSINITs were answered
\* with ZNAK, the third with ZACK, and the sender turns to its first file.
C32_Witness ==
    /\ env.sCfg.AttnLen > AttnMax
    /\ snd.state = "stxNextFile" /\ snd.retries = 2 /\ snd.nextFileCalls = 0
    /\ s2r = <<>> /\ r2s = <<>>

----------------------------------------------------------------------------
(* Counting CAN octets *)

\* The octets the transport may hold: CAN, an XON (stripped by the reader), a
\* control octet that is noise after ZDLE, and a letter.
CanOctets == {CAN, XON, 1, 97}

CanInputs == UNION {[1..n -> CanOctets] : n \in 0..MaxCanOctets}

\* s2r: the octets not read yet; rcv: the reader's canCount, the octets it
\* has taken from the transport so far and the error of its last zdlRead.
InitCan ==
    /\ env = [mode |-> "reader"]
    /\ s2r \in CanInputs
    /\ rcv = [canCount |-> 0, read |-> <<>>, err |-> "nil"]
    /\ snd = [calls |-> 0] /\ r2s = <<>>
    /\ ctx = [s |-> FALSE, r |-> FALSE]
    /\ faults = NoFaults
    /\ gd = InitGuard

\* One zdlRead on what the transport holds.
ZdlReadStep ==
    /\ rcv.err = "nil" /\ s2r # <<>>
    /\ LET Taken(z) ==
             /\ s2r' = z.tr.in
             /\ rcv' = [canCount |-> z.tr.canCount,
                        read |-> rcv.read \o SubSeq(s2r, 1, Len(s2r) - Len(z.tr.in)),
                        err |-> z.err]
       IN  Taken(zdlRead([newTransportReader(s2r) EXCEPT !.canCount = rcv.canCount]))
    /\ snd' = [calls |-> snd.calls + 1]
    /\ UNCHANGED <<env, r2s, ctx, faults, gd>>

NextCan == ZdlReadStep

SpecCan == InitCan /\ [][NextCan]_vars

\* The number of CAN octets at the end of q with no other octet between them.
RECURSIVE TrailingCans(_)
TrailingCans(q) ==
    IF q = <<>> \/ q[Len(q)] # CAN THEN 0
    ELSE 1 + TrailingCans(SubSeq(q, 1, Len(q) - 1))

\* C33: the reader reports an abort only when the last five octets it read
\* were all 0x18, and its CAN counter never exceeds the number of CAN octets
\* read since the last octet that was not CAN (noise after ZDLE and stripped
\* XON/XOFF octets included).
C33_FiveConsecutiveCans ==
    /\ rcv.err = "errAbortReceived" => TrailingCans(rcv.read) >= 5
    /\ rcv.canCount <= TrailingCans(rcv.read)

----------------------------------------------------------------------------
(* The writer's CR protection *)

\* The octets handed to the writer: CR and 0x8d, '@' and 0xc0, ZDLE, a letter.
WriterOctets == {13, 141, 64, 192, ZDLE, 97}

\* env: the escape mode; snd: the transportWriter, the number of operations
\* applied to it and the last one with its argument.
InitWriter ==
    /\ env \in [mode : {"EscapeStandard", "EscapeAll"}]
    /\ snd = [tw |-> newTransportWriter(env.mode), ops |-> 0, op |-> "", b |-> 0]
    /\ rcv = [got |-> <<>>]
    /\ s2r = <<>> /\ r2s = <<>>
    /\ ctx = [s |-> FALSE, r |-> FALSE]
    /\ faults = NoFaults
    /\ gd = InitGuard

\* One operation on the writer.
Applied(op, b, tw) ==
    /\ snd.ops < MaxWriterOps
    /\ snd' = [tw |-> tw, ops |-> snd.ops + 1, op |-> op, b |-> b]
    /\ UNCHANGED <<env, rcv, s2r, r2s, ctx, faults, gd>>

WRaw == \E b \in WriterOctets : Applied("writeRaw", b, writeRaw(snd.tw, <<b>>))

WByte == \E b \in WriterOctets : Applied("writeByte", b, writeByte(snd.tw, b))

WHex == \E b \in WriterOctets : Applied("writeHex", b, writeHex(snd.tw, b))

WEscaped == \E b \in WriterOctets : Applied("writeEscaped", b, writeEscaped(snd.tw, <<b>>))

NextWriter == WRaw \/ WByte \/ WHex \/ WEscaped

SpecWriter == InitWriter /\ [][NextWriter]_vars

\* The last octet of q, 0 when there is none.
LastOctet(q) == IF q = <<>> THEN 0 ELSE q[Len(q)]

\* C34: an escaped write of octet b emits ZDLE and b XOR 0x40 when the escape
\* table asks for it given the last octet actually emitted to the transport
\* (by whichever operation, the XOR-ed octet of an escape pair included), and
\* b itself otherwise; so no 0x0d or 0x8d follows an emitted 0x40 or 0xc0
\* unescaped.
C34_EscapeUsesLastEmitted ==
    [][snd'.op = "writeEscaped" =>
        LET out  == snd.tw.out
            new  == SubSeq(snd'.tw.out, Len(out) + 1, Len(snd'.tw.out))
            b    == snd'.b
        IN  /\ new = IF escapeRequired(env.mode, b, LastOctet(out))
                     THEN <<ZDLE, Xor(b, 64)>> ELSE <<b>>
            /\ (b \in {13, 141} /\ LastOctet(out) \in {64, 192}) => new # <<b>>]_vars

----------------------------------------------------------------------------
(* One FileCompleted per file *)

\* Two seekable files, each accepted at offset 0 or refused with ErrSkip, over
\* a transport that may damage a data subpacket and may carry a ZFIN into the
\* receiver's srxData.
CompleteEnvs ==
    { [files |-> <<a, b>>, accept |-> <<p, q>>,
       sCfg |-> SenderCfg(FALSE, 0), rCfg |-> ReceiverCfg(FALSE, 0),
       coalesce |-> [s |-> 1, r |-> 1], timeouts |-> FALSE, sink |-> GoodSink]
      : a \in SeekableKinds, b \in SeekableKinds,
        p \in {Accept(0), Skip}, q \in {Accept(0), Skip} }

NextComplete == SndStep \/ SndRecv \/ RcvStep \/ RcvRecv \/ Corrupt \/ InjectFin

SpecComplete == InitIn(CompleteEnvs) /\ [][NextComplete]_vars /\ FairLoop

\* C35: FileCompleted number i of the sender is for file i of the batch and
\* comes before NextFile call i + 1, and when Send returns nil every file of
\* the batch has had its call; FileCompleted number i of the receiver is for
\* the file of AcceptFile call i and comes before AcceptFile call i + 1, and
\* when Receive returns nil every AcceptFile call has had its FileCompleted.
C35_OneCompletionPerFile ==
    /\ \A i \in 1..Len(snd.completed) :
         snd.completed[i].file = i /\ snd.completed[i].calls = i
    /\ Len(snd.completed) <= snd.nextFileCalls
    /\ snd.nextFileCalls <= Len(snd.completed) + 1
    /\ (snd.state = "returned" /\ snd.result = "nil") =>
         /\ snd.nextFileCalls = Len(env.files) + 1
         /\ Len(snd.completed) = Len(env.files)
    /\ \A i \in 1..Len(rcv.completed) :
         i <= Len(rcv.accepted) /\ rcv.completed[i].file = rcv.accepted[i]
    /\ Len(rcv.accepted) <= Len(rcv.completed) + 1
    /\ (rcv.state = "returned" /\ rcv.result = "nil") =>
         Len(rcv.completed) = Len(rcv.accepted)

\* The first file was refused with ErrSkip, a subpacket of the second was
\* damaged and sent again, and both calls returned nil: each side has one
\* FileCompleted per file, ErrSkip for the first and nil for the second.
C35_Witness ==
    /\ snd.state = "returned" /\ snd.result = "nil"
    /\ rcv.state = "returned" /\ rcv.result = "nil"
    /\ faults.corrupt = 1 /\ snd.unreliable
    /\ Len(snd.completed) = 2 /\ Len(rcv.completed) = 2 /\ rcv.accepted = <<1, 2>>
    /\ snd.completed[1].err = "ErrSkip" /\ snd.completed[2].err = "nil"
    /\ rcv.completed[1].err = "ErrSkip" /\ rcv.completed[2].err = "nil"

----------------------------------------------------------------------------
(* The writers of accepted files *)

\* C36: whenever Receive has returned, with nil or with an error, the writer
\* obtained from AcceptFile has been closed: no return leaves it open.
C36_WriterClosedOnReturn ==
    rcv.state = "returned" => ~rcv.writerOpen

----------------------------------------------------------------------------
(* Unexpected frames in FileWait *)

\* Well-formed headers of types srxFileWait does not expect.
UnexpectedHdrs ==
    {HexHdr("ZACK", 0), HexHdr("ZEOF", 0), BinHdr("ZDATA", 0, FALSE)}

\* The peer sends one of them to the receiver waiting in srxFileWait, once
\* the one before has been read.
InjectUnexpected ==
    /\ faults.inject < MaxUnexpected
    /\ rcv.state = "srxFileWait" /\ rcv.mode = "hdr" /\ rcv.rbuf = 0 /\ s2r = <<>>
    /\ \E m \in UnexpectedHdrs : s2r' = <<m>>
    /\ faults' = [faults EXCEPT !.inject = @ + 1]
    /\ UNCHANGED <<env, snd, rcv, r2s, ctx, gd>>

\* A receiver, with or without CRC-32 and a window, facing such a peer.
UnexpectedEnvs ==
    { [files |-> <<>>, accept |-> <<>>,
       sCfg |-> SenderCfg(u, 0), rCfg |-> ReceiverCfg(u, w),
       coalesce |-> [s |-> 1, r |-> 1], timeouts |-> FALSE, sink |-> GoodSink]
      : u \in BOOLEAN, w \in {0, SmallWindow} }

NextUnexpected == RcvStep \/ RcvRecv \/ InjectUnexpected

SpecUnexpected ==
    InitIn(UnexpectedEnvs) /\ [][NextUnexpected]_vars /\ WF_vars(RcvStep) /\ WF_vars(RcvRecv)

\* C37: once the receiver has read 15 well-formed headers in a row in
\* srxFileWait whose types it does not expect there, Receive has failed with
\* the "consecutive errors" error.
C37_UnexpectedFramesCounted ==
    (faults.inject >= maxConsecutiveErr /\ s2r = <<>>) =>
        (rcv.state = "returned" /\ rcv.result = "consecutive errors")

----------------------------------------------------------------------------
(* A peer that never gives the awaited answer *)

\* A receiver that is not this program keeps the sender in a control phase:
\* in phase "init" it answers every ZRQINIT with ZCHALLENGE; in phase "file"
\* it answers ZRQINIT with ZRINIT and then, while the sender waits for the
\* answer to its ZFILE, sends ZRINIT or ZCRC again and again.
PeerStall ==
    /\ faults.inject < MaxStall
    /\ \/ /\ env.stall = "init"
          /\ s2r # <<>> /\ Head(s2r).k = "hdr" /\ Head(s2r).t = "ZRQINIT"
          /\ r2s' = r2s \o <<HexHdr("ZCHALLENGE", 7)>>
          /\ s2r' = Tail(s2r)
       \/ /\ env.stall = "file"
          /\ snd.state = "stxFileInfoAck" /\ snd.wait = "hdr"
          /\ s2r = <<>> /\ r2s = <<>>
          /\ \E m \in {PeerZRINIT, HexHdr("ZCRC", 0)} : r2s' = <<m>>
          /\ s2r' = s2r
    /\ faults' = [faults EXCEPT !.inject = @ + 1]
    /\ UNCHANGED <<env, snd, rcv, ctx, gd>>

\* It reads whatever else the sender wrote, and answers nothing but the
\* ZRQINIT of phase "file".
PeerSwallow ==
    /\ s2r # <<>>
    /\ ~(env.stall = "init" /\ Head(s2r).k = "hdr" /\ Head(s2r).t = "ZRQINIT")
    /\ r2s' = IF Head(s2r).k = "hdr" /\ Head(s2r).t = "ZRQINIT"
              THEN r2s \o <<PeerZRINIT>> ELSE r2s
    /\ s2r' = Tail(s2r)
    /\ UNCHANGED <<env, snd, rcv, ctx, faults, gd>>

\* One short file, seekable or not, offered to such a receiver.
StallEnvs ==
    { [files |-> <<a>>, accept |-> <<Accept(0)>>,
       sCfg |-> SenderCfg(u, 0), rCfg |-> ReceiverCfg(u, 0),
       coalesce |-> [s |-> 1, r |-> 1], timeouts |-> FALSE, sink |-> GoodSink,
       peer |-> [fdx |-> TRUE, window |-> 0], stall |-> p]
      : a \in {File(SmallSize, TRUE, FALSE), File(SmallSize, FALSE, TRUE), File(0, TRUE, FALSE)},
        u \in BOOLEAN, p \in {"init", "file"} }

NextStall == SndStep \/ SndRecv \/ PeerStall \/ PeerSwallow

SpecStall == InitIn(StallEnvs) /\ [][NextStall]_vars

\* C38: once the sender has read MaxRetries ZCHALLENGE replies to its ZRQINIT,
\* or MaxRetries ZRINIT or ZCRC replies to its ZFILE, with no awaited reply
\* among them, Send has returned an error.
C38_ControlPhasesBounded ==
    (faults.inject >= env.sCfg.MaxRetries /\ r2s = <<>>) =>
        (snd.state = "returned" /\ snd.result \notin {"nil", "running"})

----------------------------------------------------------------------------
(* Octets before a frame start *)

\* Before the first header is written the line carries an octet that belongs
\* to no frame: a ZPAD or a letter.
PadNoise ==
    /\ snd.sent = <<>> /\ Len(s2r) < MaxPadPrefix
    /\ \E b \in {ZPAD, 97} : s2r' = Append(s2r, b)
    /\ UNCHANGED <<env, snd, rcv, r2s, ctx, faults, gd>>

InitPad ==
    /\ env \in [mode : {"EscapeStandard"}, useCRC32 : BOOLEAN, T : {ZACK, ZDATA},
                D : {<<0, 0, 0, 0>>, <<1, 2, 3, 4>>}]
    /\ snd = [tw |-> newTransportWriter(env.mode), sent |-> <<>>]
    /\ rcv = [canCount |-> 0, garbageCount |-> 0, got |-> <<>>]
    /\ s2r = <<>> /\ r2s = <<>>
    /\ ctx = [s |-> FALSE, r |-> FALSE]
    /\ faults = NoFaults
    /\ gd = InitGuard

NextPad == PadNoise \/ HdrSend \/ HdrRecv

SpecPad == InitPad /\ [][NextPad]_vars

\* C39: a header written behind up to MaxPadPrefix octets of ZPADs and
\* letters (far below the garbage threshold) is found by scanForPad and
\* returned by recvHeader as it was sent, whatever those octets are.
C39_FrameStartFound ==
    \A i \in 1..Len(rcv.got) :
        rcv.got[i].err = "nil" /\ rcv.got[i].hdr = snd.sent[i]

----------------------------------------------------------------------------
(* A sender that chooses the encoding of each binary header *)

\* A sender that is not this program writes every ZSINIT, ZFILE and ZDATA
\* header as ZBIN32 or as ZBIN, as it likes, and the subpacket behind it with
\* the CRC width of that header. It sends the files of the batch in order,
\* each at the offset the receiver holds, in pieces of at most WidthChunk
\* octets, then ZEOF, and ZFIN after the last file; it reads the receiver's
\* replies as it goes.
PeerWidth ==
    /\ faults.inject < MaxWidthFrames
    /\ rcv.state \in {"srxFileWait", "srxData"} /\ rcv.mode = "hdr" /\ s2r = <<>>
    /\ LET f    == Len(rcv.accepted) + 1
           left == rcv.curInfo.size - rcv.fileOffset
       IN  IF rcv.state = "srxFileWait"
           THEN \/ \E c \in BOOLEAN :
                      s2r' = <<BinHdr("ZSINIT", 0, c), SubPkt("attn", 0, 0, 1, "ZCRCW", c)>>
                \/ /\ f <= Len(env.files)
                   /\ \E c \in BOOLEAN :
                      s2r' = <<BinHdr("ZFILE", WithZF0(ZCBIN), c),
                               InfoPkt(f, Offer(f).size, Len(env.files) - f, c)>>
                \/ /\ f > Len(env.files)
                   /\ s2r' = <<HexHdr("ZFIN", 0)>>
           ELSE \/ /\ left > 0
                   /\ \E c \in BOOLEAN :
                      s2r' = <<BinHdr("ZDATA", rcv.fileOffset, c),
                               SubPkt("data", rcv.curInfo.f, rcv.fileOffset,
                                      Min2(left, WidthChunk), "ZCRCW", c)>>
                \/ /\ left = 0
                   /\ s2r' = <<HexHdr("ZEOF", rcv.fileOffset)>>
    /\ r2s' = <<>>
    /\ faults' = [faults EXCEPT !.inject = @ + 1]
    /\ UNCHANGED <<env, snd, rcv, ctx, gd>>

\* One or two short files, accepted at offset 0 by a receiver with or
\* without Use32BitCRC.
WidthEnvs ==
    { [files |-> b, accept |-> [i \in 1..Len(b) |-> Accept(0)],
       sCfg |-> SenderCfg(u, 0), rCfg |-> ReceiverCfg(u, 0),
       coalesce |-> [s |-> 1, r |-> 1], timeouts |-> FALSE, sink |-> GoodSink]
      : b \in {<<File(SmallSize, TRUE, FALSE)>>,
               <<File(0, TRUE, FALSE), File(SmallSize, TRUE, FALSE)>>},
        u \in BOOLEAN }

NextWidth == RcvStep \/ RcvRecv \/ PeerWidth

SpecWidth == InitIn(WidthEnvs) /\ [][NextWidth]_vars

\* The receiver is about to read, or has just read, a subpacket.
InSubpacket(r) == r.mode \in {"attn", "info", "sub"}

\* C40: when the receiver has read a ZBIN32 or ZBIN header of type ZSINIT,
\* ZFILE or ZDATA and goes on to the subpacket behind it, it verifies with
\* CRC-32 exactly when the header was ZBIN32, whatever the headers before it
\* were; the width stays as it is up to the end of the frame, so that no
\* subpacket written with the width of its header is refused.
C40_CrcWidthOfHeader ==
    /\ [][(rcv.mode = "hdr" /\ InSubpacket(rcv') /\ s2r # <<>>) =>
            rcv'.useCRC32 = (Head(s2r).enc = "ZBIN32")]_vars
    /\ [][(InSubpacket(rcv) /\ InSubpacket(rcv')) => rcv'.useCRC32 = rcv.useCRC32]_vars
    /\ [](rcv.result # "data error" /\ rcv.retries = 0)

====
